---------------------------- MODULE Spec2Model ----------------------------
(***************************************************************************)
(* A model of reprounzip's default unpackers                               *)
(* (reprounzip/unpackers/default.py): the "directory" and "chroot"         *)
(* commands acting on one unpacked target.                                 *)
(*                                                                         *)
(* A string that the code treats as a '/'-separated name (a tar member     *)
(* name, a link target, an argument) is the sequence of its segments:      *)
(* 'DATA/usr/bin' is <<"DATA","usr","bin">>, '/etc' is <<"","etc">>.       *)
(* An rpaths Path is the sequence of its components, "/" first when it is  *)
(* absolute: Path('/usr/bin') is <<"/","usr","bin">>.                      *)
(***************************************************************************)
EXTENDS Integers, Sequences, FiniteSets, TLC

VARIABLES
    pack,       \* the pack given to setup (fixed along a behaviour)
    files,      \* the file system entries the commands wrote
    record,     \* the persisted record <target>/.reprounzip
    mounts,     \* the host's live bind mounts under <target>/root
    last,       \* what the last command did
    tracer,     \* the tracer's name generator and labelling (reprozip.tracer.trace)
    out,        \* a download to standard output in progress
    inflight    \* an upload and a setup/mount running at the same time

vars == <<pack, files, record, mounts, last, tracer, out, inflight>>

\* How many optional members a pack of the model holds.
MaxMembers == 2
\* How many times one magic directory is bind-mounted on top of itself.
MaxStack == 1
\* How many names one name generator is asked for.
MaxCalls == 4
\* How many files of a run are labelled.
MaxListed == 3
\* How many bytes the file sent to standard output holds at most.
MaxLength == 2049

-----------------------------------------------------------------------------
(* Paths *)

IsPrefix(p, q) == Len(p) <= Len(q) /\ SubSeq(q, 1, Len(p)) = p

SelectNonEmpty(s) == SelectSeq(s, LAMBDA x : x # "")

\* str.startswith('/')
StartsWithSlash(s) == Len(s) >= 2 /\ s[1] = ""

\* PosixPath(s): the components of a string, redundant separators dropped.
PosixPath(s) ==
    IF StartsWithSlash(s) THEN <<"/">> \o SelectNonEmpty(Tail(s))
    ELSE SelectNonEmpty(s)

\* Path.path / str(path): the string of a path; the empty path prints as '.'.
PathStr(p) ==
    IF Len(p) > 0 /\ p[1] = "/" THEN <<"">> \o Tail(p)
    ELSE IF p = <<>> THEN <<".">>
    ELSE p

is_absolute(p) == Len(p) > 0 /\ p[1] = "/"

\* Path.parent
Parent(p) == IF Len(p) <= 1 THEN p ELSE SubSeq(p, 1, Len(p) - 1)

\* join_root(root, path): root followed by path without its leading root marker.
join_root(root, path) == root \o Tail(path)

\* os.path.join(root, name), as tarfile.extractall(root, members) joins the
\* directory with each member's name: an absolute name replaces the directory.
OsPathJoin(root, name) ==
    IF StartsWithSlash(name) THEN PosixPath(name)
    ELSE root \o SelectNonEmpty(name)

Target == <<"/", "t">>
Root == Target \o <<"root">>

-----------------------------------------------------------------------------
(* The pack *)

\* The segments of the model that hold '..' as a substring.
DotDotSegments == {"..", "a..b"}

\* The permission bits of a member that is not set-user-ID: 0o644.
DefaultMode == 420

ConfigMember ==
    [name |-> <<"METADATA", "config.yml">>, type |-> "file", linkname |-> <<>>,
      mode |-> DefaultMode]

OptionalMembers ==
    { [name |-> <<"DATA", "usr", "bin", "prog">>, type |-> "file", linkname |-> <<>>,
      mode |-> DefaultMode],
      [name |-> <<"DATA", "out", "keep">>, type |-> "file", linkname |-> <<>>,
        mode |-> DefaultMode],
      [name |-> <<"DATA", "home", "user", "in.txt">>, type |-> "file", linkname |-> <<>>,
        mode |-> DefaultMode],
      [name |-> <<"DATA", "lib", "l">>, type |-> "sym", linkname |-> <<"", "usr", "lib", "l">>,
        mode |-> DefaultMode],
      [name |-> <<"DATA", "usr", "bin", "p">>, type |-> "sym", linkname |-> <<"prog">>,
        mode |-> DefaultMode],
      [name |-> <<"DATA", "bin", "sh">>, type |-> "file", linkname |-> <<>>,
        mode |-> DefaultMode],
      [name |-> <<"DATA", "usr", "bin", "env">>, type |-> "sym", linkname |-> <<"", "bin", "sh">>,
        mode |-> DefaultMode],
      [name |-> <<"DATA", "..", "evil">>, type |-> "file", linkname |-> <<>>,
        mode |-> DefaultMode],
      [name |-> <<"DATA", "a..b">>, type |-> "file", linkname |-> <<>>,
        mode |-> DefaultMode],
      [name |-> <<"", "etc", "passwd">>, type |-> "file", linkname |-> <<>>,
        mode |-> DefaultMode],
      [name |-> <<"DATA", "", "etc", "x">>, type |-> "file", linkname |-> <<>>,
        mode |-> DefaultMode] }

\* The recorded run of the pack's configuration.
InputPath == <<"", "home", "user", "in.txt">>

\* run['environ'] of the recorded run: a ':'-separated value is the sequence
\* of its entries.
TheEnviron ==
    [k \in {"HOME", "PATH"} |->
        IF k = "PATH" THEN << <<"", "usr", "bin">>, <<"bin">> >>
        ELSE <<"", "home", "user">>]

TheRun(members) ==
    [ argv |-> << <<"", "usr", "bin", "prog">>, <<"-o">>, <<"", "out", "result.txt">> >>,
      binary |-> <<"", "usr", "bin", "prog">>,
      workingdir |-> <<"", "home", "user">>,
      environ |-> TheEnviron,
      input_files |-> IF \E m \in members : m.name = <<"DATA">> \o Tail(InputPath)
                      THEN {InputPath} ELSE {} ]

\* The files of the packages that were not packed, all present on the host.
HostPkgFiles == { <<"/", "usr", "lib", "h">> }

Packs ==
    { [members |-> {ConfigMember} \cup ms, unpacked_pkg |-> u, run |-> TheRun(ms),
       runs |-> <<TheRun(ms)>>] :
        ms \in {s \in SUBSET OptionalMembers : Cardinality(s) <= MaxMembers},
        u \in BOOLEAN }

\* '..' in m.name or m.name.startswith('/')
InvalidName(n) ==
    \/ \E i \in 1..Len(n) : n[i] \in DotDotSegments
    \/ StartsWithSlash(n)

\* any('..' in m.name or m.name.startswith('/') for m in tar.getmembers())
AnyInvalidName(members) == \E m \in members : InvalidName(m.name)

\* m.name.startswith('DATA/')
IsData(m) == Len(m.name) >= 2 /\ m.name[1] = "DATA"

\* [m for m in tar.getmembers() if m.name.startswith('DATA/')]
DataMembers(members) == {m \in members : IsData(m)}

\* m.name = m.name[5:]
StripData(n) == Tail(n)

-----------------------------------------------------------------------------
(* The file system *)

Entry(path, type, linkname, owner, content) ==
    [path |-> path, type |-> type, linkname |-> linkname,
     owner |-> owner, content |-> content, mode |-> DefaultMode]

\* Path.exists(), Path.lexists(): the entry, or a directory leading to one.
Exists(fs, p) == \E e \in fs : IsPrefix(p, e.path)

UnderTarget(e) == IsPrefix(Target, e.path)

\* rmtree_fixed(target)
rmtree_fixed(fs) == {e \in fs : ~UnderTarget(e)}

\* Bits of st_mode: the file type above the twelve permission bits (0o7777).
S_IFREG == 32768
S_IFDIR == 16384
AllPermissionBits == 4095
S_ISUID == 2048
S_ISGID == 1024
S_IRWXU == 448
S_IXGRP == 8

\* Whether a bit (a power of two) is set in a mode.
HasBit(mode, bit) == (mode \div bit) % 2 = 1

\* Path.stat().st_mode
StMode(e) == (IF e.type = "dir" THEN S_IFDIR ELSE S_IFREG) + e.mode

\* mode | 0o700
WithOwnerBits(mode) == (mode - (mode % 512)) + S_IRWXU + (mode % 64)

\* The directories on the way to dir, and dir itself.
LeadsTo(e, dir) == e.type = "dir" /\ IsPrefix(e.path, dir)

\* A directory make_dir_writable(dir) has to change: dir when it lacks one of
\* the owner's read, write and search bits, a directory above it when it
\* lacks the owner's search bit (0o100).
NeedsChange(e, dir) ==
    /\ LeadsTo(e, dir)
    /\ IF e.path = dir THEN e.mode % 512 < S_IRWXU ELSE ~HasBit(e.mode, 64)

\* make_dir_writable(directory), entering: each directory that bars the way
\* gets the owner's read, write and search bits.
MakeDirWritable(fs, dir) ==
    { IF NeedsChange(e, dir) THEN [e EXCEPT !.mode = WithOwnerBits(@)] ELSE e :
        e \in fs }

\* make_dir_writable(directory), leaving: the directories that were changed
\* get back the permissions they had in before.
RestoreDir(fs, before, dir) ==
    { IF LeadsTo(e, dir) /\ \E b \in before : NeedsChange(b, dir) /\ b.path = e.path
      THEN [e EXCEPT !.mode = (CHOOSE b \in before : LeadsTo(b, dir) /\ b.path = e.path).mode]
      ELSE e : e \in fs }

\* The permissions of the directories on the way to dir.
DirModes(fs, dir) == { [path |-> e.path, mode |-> e.mode] : e \in {x \in fs : LeadsTo(x, dir)} }

\* What a 'with make_dir_writable(dir)' did: the permissions on the way to
\* dir before it, inside it and after it, and how the body ended.
NoScope ==
    [entered |-> FALSE, dir |-> <<>>, before |-> {}, inside |-> {}, after |-> {},
     exit |-> "none"]

Scope(dir, before, inside, after, exit) ==
    [entered |-> TRUE, dir |-> dir, before |-> DirModes(before, dir),
     inside |-> DirModes(inside, dir), after |-> DirModes(after, dir), exit |-> exit]

\* Whether the process may create a file in dir: root may, another user
\* needs the search bit on the way and the write and search bits on dir.
CanCreateIn(fs, dir, elevated) ==
    \/ elevated
    \/ \A e \in fs : LeadsTo(e, dir) =>
          /\ HasBit(e.mode, 64)
          /\ e.path = dir => HasBit(e.mode, 128)

ConfigEntry == Entry(Target \o <<"config.yml">>, "file", <<>>, "current", "orig")
RootEntry == Entry(Root, "dir", <<>>, "current", "orig")
InputsTarEntry == Entry(Target \o <<"inputs.tar.gz">>, "file", <<>>, "current", "orig")

-----------------------------------------------------------------------------
(* The persisted record *)

NoRecord ==
    [present |-> FALSE, unpacker |-> "none", mounted |-> "absent",
     has_input_files |-> FALSE, input_files |-> {}]

\* The dictionaries the commands pass to write_dict.
EmptyDict == [mounted |-> "absent", has_input_files |-> FALSE, input_files |-> {}]
MountedDict == [mounted |-> "true", has_input_files |-> FALSE, input_files |-> {}]

DictOf(rec) ==
    [mounted |-> rec.mounted, has_input_files |-> rec.has_input_files,
     input_files |-> rec.input_files]

\* write_dict(filename, dct, type_): the whole record is replaced.
write_dict(dct, type_) ==
    [present |-> TRUE, unpacker |-> type_, mounted |-> dct.mounted,
     has_input_files |-> dct.has_input_files, input_files |-> dct.input_files]

read_dict_any_unpacker(rec, type_) == IF ~rec.present THEN "IOError" ELSE "ok"

\* A missing file read as an empty record.
read_dict_missing_ok(rec, type_) ==
    IF rec.present /\ rec.unpacker # type_ THEN "UsageError" ELSE "ok"

\* read_dict(filename, type_): "ok", "UsageError" for another unpacker's
\* record, "IOError" when the file is not there.
read_dict(rec, type_) ==
    IF ~rec.present THEN "IOError"
    ELSE IF rec.unpacker # type_ THEN "UsageError"
    ELSE "ok"

\* unpacked_info.get('mounted', False)
GetMounted(rec) == rec.mounted = "true"

-----------------------------------------------------------------------------
(* The privilege policy *)

Params == {"yes", "no", "unset"}     \* True, False, None

\* What a command keeps of a resolution: the request and the answer.
NoPolicy ==
    [called |-> FALSE, param |-> "unset", elevated |-> FALSE,
     ret |-> FALSE, warn |-> FALSE, fatal |-> FALSE]

PolicyCall(param, elevated, res) ==
    [called |-> TRUE, param |-> param, elevated |-> elevated,
     ret |-> res.ret, warn |-> res.warn, fatal |-> res.fatal]

should_restore_owner_silent(param, elevated) ==
    IF ~elevated
    THEN [ret |-> FALSE, warn |-> param = "unset", fatal |-> FALSE]
    ELSE [ret |-> param # "no", warn |-> FALSE, fatal |-> FALSE]

\* should_restore_owner(param), elevated: os.getuid() == 0
should_restore_owner(param, elevated) ==
    IF ~elevated
    THEN IF param = "yes" THEN [ret |-> FALSE, warn |-> FALSE, fatal |-> TRUE]
         ELSE IF param = "unset" THEN [ret |-> FALSE, warn |-> TRUE, fatal |-> FALSE]
         ELSE [ret |-> FALSE, warn |-> FALSE, fatal |-> FALSE]
    ELSE IF param = "unset" THEN [ret |-> TRUE, warn |-> FALSE, fatal |-> FALSE]
         ELSE IF param = "yes" THEN [ret |-> TRUE, warn |-> FALSE, fatal |-> FALSE]
         ELSE [ret |-> FALSE, warn |-> FALSE, fatal |-> FALSE]

\* should_mount_magic_dirs(param)
should_mount_magic_dirs(param, elevated) ==
    IF ~elevated
    THEN IF param = "yes" THEN [ret |-> FALSE, warn |-> FALSE, fatal |-> TRUE]
         ELSE IF param = "unset" THEN [ret |-> FALSE, warn |-> TRUE, fatal |-> FALSE]
         ELSE [ret |-> FALSE, warn |-> FALSE, fatal |-> FALSE]
    ELSE IF param = "unset" THEN [ret |-> TRUE, warn |-> FALSE, fatal |-> FALSE]
         ELSE IF param = "yes" THEN [ret |-> TRUE, warn |-> FALSE, fatal |-> FALSE]
         ELSE [ret |-> FALSE, warn |-> FALSE, fatal |-> FALSE]

-----------------------------------------------------------------------------
(* What a command returns: the world it leaves and how it ended.           *)
(* result: "ok", "exit1" (sys.exit(1)), "UsageError", "error" (another     *)
(* exception: a failed external command, a missing file).                  *)

World(fs, rec, mnt) == [files |-> fs, record |-> rec, mounts |-> mnt]

\* What a run was given: args.x11, os.environ, the selected runs, and what
\* the programs and the X11 initialisation command exit with; interrupt is
\* the command of the chain during which the operator interrupts, 0 for none.
NoInput ==
    [x11 |-> FALSE, host_env |-> <<>>, selected |-> <<>>, exits |-> <<>>,
     init_exit |-> 0, interrupt |-> 0]

RunInput(a) ==
    [x11 |-> a.x11, host_env |-> a.host_env, selected |-> a.selected,
     exits |-> a.exits, init_exit |-> a.init_exit, interrupt |-> a.interrupt]

\* The file specs a download was given, those it fetched and those it
\* reported missing, by position.
NoBatch == [given |-> <<>>, fetched |-> <<>>, critical |-> <<>>]

NoCmdline ==
    [discovered |-> <<>>, lib_dirs |-> <<>>, has_lib_dirs |-> FALSE, runs |-> <<>>,
     chain |-> <<>>, done |-> <<>>]

Res(w, result, steps) ==
    [w |-> w, result |-> result, steps |-> steps,
     owner |-> NoPolicy, magic |-> NoPolicy,
     del_flag |-> FALSE, del_live |-> FALSE,
     unmount |-> "none", cmdline |-> NoCmdline, ran |-> FALSE, retcode |-> 0,
     reported |-> 0, post_run |-> 0, input |-> NoInput, batch |-> NoBatch,
     uploaded |-> "none", umounts |-> <<>>, scope |-> NoScope, forwarders |-> <<>>]

-----------------------------------------------------------------------------
(* setup *)

\* The link target left as it is in the pack.
DirectoryLinkname_verbatim(m) == m.linkname

\* directory_create, "Makes symlink targets relative": the link target of a
\* member as directory_create writes it.
DirectoryLinkname(m) ==
    IF m.type # "sym" THEN m.linkname
    ELSE IF is_absolute(PosixPath(m.linkname))
         THEN PathStr(join_root(Root, PosixPath(m.linkname)))
         ELSE m.linkname

\* chroot_create leaves the link targets as they are in the pack.
ChrootLinkname(m) == m.linkname

\* tar.extractall(str(root), members) of directory_create
DirectoryExtract(members, elevated) ==
    { [Entry(OsPathJoin(Root, StripData(m.name)), m.type, DirectoryLinkname(m),
             IF elevated THEN "orig" ELSE "current", "orig")
         EXCEPT !.mode = m.mode] :
        m \in DataMembers(members) }

\* tar.extractall(str(root), members) of chroot_create
ChrootExtract(members, restore_owner) ==
    { [Entry(OsPathJoin(Root, StripData(m.name)), m.type, ChrootLinkname(m),
             IF restore_owner THEN "orig" ELSE "current", "orig")
         EXCEPT !.mode = m.mode] :
        m \in DataMembers(members) }

\* chroot_create, "Will copy files from HOST SYSTEM"
HostCopy(p, restore_owner) ==
    IF p.unpacked_pkg
    THEN { Entry(join_root(Root, f), "file", <<>>,
                 IF restore_owner THEN "orig" ELSE "current", "host") :
             f \in HostPkgFiles }
    ELSE {}

\* chroot_create, "Original input files, so upload can restore them"
InputsTar(p) == IF p.run.input_files # {} THEN {InputsTarEntry} ELSE {}

ShPath == join_root(Root, <<"/", "bin", "sh">>)
EnvPath == join_root(Root, <<"/", "usr", "bin", "env">>)
BusyboxPath == join_root(Root, <<"/", "bin", "busybox">>)

\* Path.exists(): a symbolic link is followed, to what its target names
\* inside the root.
ExistsResolved(fs, p) ==
    /\ Exists(fs, p)
    /\ \A e \in fs : (e.path = p /\ e.type = "sym") =>
            Exists(fs, join_root(Root, PosixPath(e.linkname)))

Busybox_resolving(fs) ==
    IF ~ExistsResolved(fs, ShPath) \/ ~ExistsResolved(fs, EnvPath)
    THEN {Entry(BusyboxPath, "file", <<>>, "current", "busybox")}
         \cup (IF ~ExistsResolved(fs, ShPath)
               THEN {Entry(ShPath, "sym", <<"", "bin", "busybox">>, "current", "busybox")}
               ELSE {})
         \cup (IF ~ExistsResolved(fs, EnvPath)
               THEN {Entry(EnvPath, "sym", <<"", "bin", "busybox">>, "current", "busybox")}
               ELSE {})
    ELSE {}

\* chroot_create, "Sets up /bin/sh and /usr/bin/env": the entries added.
Busybox(fs) ==
    IF ~Exists(fs, ShPath) \/ ~Exists(fs, EnvPath)
    THEN {Entry(BusyboxPath, "file", <<>>, "current", "busybox")}
         \cup (IF ~Exists(fs, ShPath)
               THEN {Entry(ShPath, "sym", <<"", "bin", "busybox">>, "current", "busybox")}
               ELSE {})
         \cup (IF ~Exists(fs, EnvPath)
               THEN {Entry(EnvPath, "sym", <<"", "bin", "busybox">>, "current", "busybox")}
               ELSE {})
    ELSE {}

BinPath == join_root(Root, <<"/", "bin">>)

BusyboxSetup_no_restore(fs, a) ==
    IF Busybox(fs) = {}
    THEN [files |-> fs, ok |-> TRUE, scope |-> NoScope]
    ELSE
    LET inside == MakeDirWritable(fs, BinPath)
        ok == a.download_ok /\ CanCreateIn(inside, BinPath, a.elevated)
        installed == IF ok THEN inside \cup Busybox(fs) ELSE inside
    IN  [files |-> installed, ok |-> ok,
         scope |-> Scope(BinPath, fs, inside, installed,
                         IF ok THEN "return" ELSE "error")]

\* chroot_create, "Sets up /bin/sh and /usr/bin/env, downloading busybox if
\* necessary": with <root>/bin made writable, download_file (which raises
\* when a.download_ok is false, or when the file cannot be created), chmod
\* and the symlinks; the permissions are restored when the block is left.
BusyboxSetup(fs, a) ==
    IF Busybox(fs) = {}
    THEN [files |-> fs, ok |-> TRUE, scope |-> NoScope]
    ELSE
    LET inside == MakeDirWritable(fs, BinPath)
        ok == a.download_ok /\ CanCreateIn(inside, BinPath, a.elevated)
        installed == IF ok THEN inside \cup Busybox(fs) ELSE inside
        after == RestoreDir(installed, fs, BinPath)
    IN  [files |-> after, ok |-> ok,
         scope |-> Scope(BinPath, fs, inside, after,
                         IF ok THEN "return" ELSE "error")]

directory_create_checks_data_only(w, p, a) ==
    IF ~a.has_pack THEN Res(w, "exit1", <<"usage">>)
    ELSE IF Exists(w.files, Target) THEN Res(w, "exit1", <<"usage">>)
    ELSE
    LET f1 == w.files \cup {ConfigEntry, RootEntry}
        s1 == <<"extract_config", "mkdir_root", "name_check">>
    IN  IF \E m \in p.members : m.name[1] = "DATA" /\ InvalidName(m.name)
        THEN Res([w EXCEPT !.files = f1], "exit1", s1)
        ELSE
        LET f2 == f1 \cup DirectoryExtract(p.members, a.elevated)
            f3 == f2 \cup InputsTar(p)
        IN  Res([w EXCEPT !.files = f3, !.record = write_dict(EmptyDict, "directory")],
                "ok", s1 \o <<"extract_data", "inputs_tar", "write_dict">>)

directory_create_no_target_check(w, p, a) ==
    IF ~a.has_pack THEN Res(w, "exit1", <<"usage">>)
    ELSE
    LET f1 == w.files \cup {ConfigEntry, RootEntry}
        s1 == <<"extract_config", "mkdir_root", "name_check">>
    IN  IF AnyInvalidName(p.members)
        THEN Res([w EXCEPT !.files = f1], "exit1", s1)
        ELSE
        LET f2 == f1 \cup DirectoryExtract(p.members, a.elevated)
            f3 == f2 \cup InputsTar(p)
        IN  Res([w EXCEPT !.files = f3, !.record = write_dict(EmptyDict, "directory")],
                "ok", s1 \o <<"extract_data", "inputs_tar", "write_dict">>)

\* directory_create(args)
directory_create(w, p, a) ==
    IF ~a.has_pack THEN Res(w, "exit1", <<"usage">>)
    ELSE IF Exists(w.files, Target) THEN Res(w, "exit1", <<"usage">>)
    ELSE
    LET f1 == w.files \cup {ConfigEntry, RootEntry}
        s1 == <<"extract_config", "mkdir_root", "name_check">>
    IN  IF AnyInvalidName(p.members)
        THEN Res([w EXCEPT !.files = f1], "exit1", s1)
        ELSE
        LET f2 == f1 \cup DirectoryExtract(p.members, a.elevated)
            f3 == f2 \cup InputsTar(p)
        IN  Res([w EXCEPT !.files = f3, !.record = write_dict(EmptyDict, "directory")],
                "ok", s1 \o <<"extract_data", "inputs_tar", "write_dict">>)

\* chroot_create(args)
chroot_create(w, p, a) ==
    IF ~a.has_pack THEN Res(w, "exit1", <<"usage">>)
    ELSE IF Exists(w.files, Target) THEN Res(w, "exit1", <<"usage">>)
    ELSE
    LET ro == should_restore_owner(a.restore_owner, a.elevated)
    IN  IF ro.fatal THEN [Res(w, "exit1", <<"restore_owner">>) EXCEPT !.owner = PolicyCall(a.restore_owner, a.elevated, ro)]
        ELSE
        LET f1 == w.files \cup {ConfigEntry, RootEntry}
            f2 == f1 \cup HostCopy(p, ro.ret)
            s1 == <<"restore_owner", "extract_config", "mkdir_root">>
                  \o (IF p.unpacked_pkg THEN <<"host_copy">> ELSE <<>>)
                  \o <<"name_check">>
        IN  IF AnyInvalidName(p.members)
            THEN [Res([w EXCEPT !.files = f2], "exit1", s1) EXCEPT !.owner = PolicyCall(a.restore_owner, a.elevated, ro)]
            ELSE
            LET f3 == f2 \cup ChrootExtract(p.members, ro.ret)
                bb == Busybox(f3)
                bs == BusyboxSetup(f3, a)
                s2 == s1 \o <<"extract_data">>
            IN  IF ~bs.ok
                THEN [Res([w EXCEPT !.files = bs.files], "error", s2 \o <<"busybox">>)
                        EXCEPT !.owner = PolicyCall(a.restore_owner, a.elevated, ro),
                               !.scope = bs.scope]
                ELSE
                LET f4 == bs.files
                    f5 == f4 \cup InputsTar(p)
                IN  [Res([w EXCEPT !.files = f5,
                                   !.record = write_dict(EmptyDict, "chroot")],
                         "ok",
                         s2 \o (IF bb # {} THEN <<"busybox">> ELSE <<>>)
                            \o <<"inputs_tar", "write_dict">>)
                       EXCEPT !.owner = PolicyCall(a.restore_owner, a.elevated, ro),
                              !.scope = bs.scope]

-----------------------------------------------------------------------------
(* Commands on an existing target *)

\* @target_must_exist: the command is not entered when the target is missing.
target_must_exist(w, r) ==
    IF ~Exists(w.files, Target) THEN Res(w, "exit1", <<"target_must_exist">>)
    ELSE r

\* ('/dev', '/dev/pts', '/proc'), in the order chroot_mount binds them.
MagicDirs == << <<"/", "dev">>, <<"/", "dev", "pts">>, <<"/", "proc">> >>

NoMounts == [i \in 1..3 |-> 0]

AnyLive(mnt) == \E i \in 1..3 : mnt[i] > 0

MagicDirEntry(i) == Entry(join_root(Root, MagicDirs[i]), "dir", <<>>, "current", "mount")

\* chroot_mount(args); a.fail_at is the first bind that returns non-zero
\* (4: none does).
chroot_mount(w, a) ==
    target_must_exist(w,
    LET rd == read_dict(w.record, "chroot")
    IN  IF rd # "ok" THEN Res(w, rd, <<"read_dict">>)
        ELSE
        LET made == {MagicDirEntry(i) : i \in {j \in 1..3 : j <= a.fail_at}}
            mnt == [i \in 1..3 |-> IF i < a.fail_at THEN w.mounts[i] + 1
                                   ELSE w.mounts[i]]
            w1 == [w EXCEPT !.files = w.files \cup made, !.mounts = mnt]
        IN  IF a.fail_at <= 3
            THEN Res(w1, "error", <<"read_dict", "mount">>)
            ELSE Res([w1 EXCEPT !.record = write_dict(MountedDict, "chroot")],
                     "ok", <<"read_dict", "mount", "write_dict">>))

\* 'grep d /proc/mounts | cut -f2 -d" "': the mount points at or beneath magic
\* directory i, one line per mount, in the order of the mount table (the
\* order the mounts were made in). A mount point is named by its place in
\* MagicDirs, which is also the order of the three paths as strings.
MountLines(mnt, i) ==
    LET beneath == SelectSeq(<<1, 2, 3>>,
                             LAMBDA j : IsPrefix(MagicDirs[i], MagicDirs[j]))
        Lines[k \in 0..Len(beneath)] ==
            IF k = 0 THEN <<>>
            ELSE Lines[k - 1] \o [n \in 1..mnt[beneath[k]] |-> beneath[k]]
    IN  Lines[Len(beneath)]

RECURSIVE Sort(_)
Sort(lines) ==
    IF lines = <<>> THEN <<>>
    ELSE LET rest == Sort(Tail(lines))
             k == Cardinality({j \in 1..Len(rest) : rest[j] < Head(lines)})
         IN  SubSeq(rest, 1, k) \o <<Head(lines)>> \o SubSeq(rest, k + 1, Len(rest))

\* 'sort -r': the lines in reverse order of their strings.
RECURSIVE SortReverse(_)
SortReverse(lines) ==
    IF lines = <<>> THEN <<>>
    ELSE LET rest == SortReverse(Tail(lines))
             k == Cardinality({j \in 1..Len(rest) : rest[j] > Head(lines)})
         IN  SubSeq(rest, 1, k) \o <<Head(lines)>> \o SubSeq(rest, k + 1, Len(rest))

\* The mount points 'xargs umount' is given for magic directory i, in order.
UmountArgs(mnt, i) == SortReverse(MountLines(mnt, i))

\* What one 'grep d /proc/mounts | cut | sort -r | xargs umount' leaves of the
\* mounts at or beneath magic directory i (1: /dev with /dev/pts, 3: /proc).
\* When it fails, a.partial says whether the deeper mounts, which come
\* first, were unmounted before the failure.
Umount(mnt, i, failed, partial) ==
    IF i = 1
    THEN IF ~failed THEN [mnt EXCEPT ![1] = 0, ![2] = 0]
         ELSE IF partial THEN [mnt EXCEPT ![2] = 0] ELSE mnt
    ELSE IF ~failed THEN [mnt EXCEPT ![3] = 0] ELSE mnt

\* chroot_unmount(target): the field unmount is what it returns ("True",
\* "False"), "raised" when it raises. a.umount_fail is the pipeline that
\* returns non-zero ("dev", "proc", "none").
chroot_unmount(w, a) ==
    LET rd == read_dict(w.record, "chroot")
    IN  IF rd # "ok" THEN [Res(w, rd, <<"read_dict">>) EXCEPT !.unmount = "raised"]
        ELSE IF ~GetMounted(w.record)
        THEN [Res(w, "ok", <<"read_dict">>) EXCEPT !.unmount = "False"]
        ELSE
        LET dev == Exists(w.files, join_root(Root, MagicDirs[1]))
            proc == Exists(w.files, join_root(Root, MagicDirs[3]))
            devfail == dev /\ a.umount_fail = "dev"
            m1 == IF dev THEN Umount(w.mounts, 1, devfail, a.partial) ELSE w.mounts
            procfail == proc /\ a.umount_fail = "proc"
            m2 == IF proc THEN Umount(m1, 3, procfail, a.partial) ELSE m1
            devargs == IF dev THEN <<UmountArgs(w.mounts, 1)>> ELSE <<>>
            procargs == IF proc THEN <<UmountArgs(m1, 3)>> ELSE <<>>
        IN  IF devfail
            THEN [Res([w EXCEPT !.mounts = m1], "error", <<"read_dict", "umount">>)
                    EXCEPT !.unmount = "raised", !.umounts = devargs]
            ELSE IF procfail
            THEN [Res([w EXCEPT !.mounts = m2], "error", <<"read_dict", "umount">>)
                    EXCEPT !.unmount = "raised", !.umounts = devargs \o procargs]
            ELSE [Res([w EXCEPT !.mounts = m2,
                                !.record = write_dict(
                                    [DictOf(w.record) EXCEPT !.mounted = "false"],
                                    "chroot")],
                      "ok", <<"read_dict", "umount", "write_dict">>)
                    EXCEPT !.unmount = "True", !.umounts = devargs \o procargs]

chroot_destroy_unmount_lenient(w, a) ==
    target_must_exist(w, chroot_unmount(w, a))

\* chroot_destroy_unmount(args)
chroot_destroy_unmount(w, a) ==
    target_must_exist(w,
    LET r == chroot_unmount(w, a)
    IN  IF r.result = "ok" /\ r.unmount = "False"
        THEN [r EXCEPT !.result = "exit1", !.steps = r.steps \o <<"critical">>]
        ELSE r)

\* rmtree_fixed(target), with what stands in its way: the mount point of a
\* live bind mount cannot be removed, what is beneath it (the host's own
\* files) is deleted.
Rmtree(w, r) ==
    IF AnyLive(w.mounts)
    THEN [r EXCEPT !.w = [w EXCEPT
                !.files = rmtree_fixed(w.files)
                          \cup {MagicDirEntry(i) : i \in {j \in 1..3 : w.mounts[j] > 0}},
                !.record = NoRecord],
            !.result = "error", !.steps = r.steps \o <<"rmtree">>,
            !.del_flag = GetMounted(w.record), !.del_live = TRUE]
    ELSE [r EXCEPT !.w = [w EXCEPT !.files = rmtree_fixed(w.files),
                                   !.record = NoRecord],
            !.result = "ok", !.steps = r.steps \o <<"rmtree">>,
            !.del_flag = GetMounted(w.record), !.del_live = FALSE]

chroot_destroy_dir_unguarded(w, a) ==
    target_must_exist(w,
    LET rd == read_dict(w.record, "chroot")
    IN  IF rd # "ok" THEN Res(w, rd, <<"read_dict">>)
        ELSE Rmtree(w, Res(w, "ok", <<"read_dict">>)))

\* chroot_destroy_dir(args)
chroot_destroy_dir(w, a) ==
    target_must_exist(w,
    LET rd == read_dict(w.record, "chroot")
    IN  IF rd # "ok" THEN Res(w, rd, <<"read_dict">>)
        ELSE IF GetMounted(w.record)
        THEN Res(w, "exit1", <<"read_dict", "critical">>)
        ELSE Rmtree(w, Res(w, "ok", <<"read_dict">>)))

\* chroot_destroy(args)
chroot_destroy(w, a) ==
    target_must_exist(w,
    LET r == chroot_unmount(w, a)
    IN  IF r.result # "ok" THEN r
        ELSE Rmtree(r.w, r))

\* directory_destroy(args)
directory_destroy(w, a) ==
    target_must_exist(w,
    LET rd == read_dict(w.record, "directory")
    IN  IF rd # "ok" THEN Res(w, rd, <<"read_dict">>)
        ELSE Rmtree(w, Res(w, "ok", <<"read_dict">>)))

\* chroot_setup(args): create, then mount if should_mount_magic_dirs says so.
chroot_setup(w, p, a) ==
    LET r1 == chroot_create(w, p, a)
    IN  IF r1.result # "ok" THEN r1
        ELSE
        LET mm == should_mount_magic_dirs(a.bind_magic_dirs, a.elevated)
        IN  IF mm.fatal
            THEN [r1 EXCEPT !.result = "exit1",
                            !.magic = PolicyCall(a.bind_magic_dirs, a.elevated, mm),
                            !.steps = r1.steps \o <<"mount_magic_dirs">>]
            ELSE IF mm.ret
            THEN LET r2 == chroot_mount(r1.w, a)
                 IN  [r2 EXCEPT !.owner = r1.owner,
                                !.magic = PolicyCall(a.bind_magic_dirs, a.elevated, mm),
                                !.steps = r1.steps \o <<"mount_magic_dirs">> \o r2.steps]
            ELSE [r1 EXCEPT !.magic = PolicyCall(a.bind_magic_dirs, a.elevated, mm),
                            !.steps = r1.steps \o <<"mount_magic_dirs">>]

-----------------------------------------------------------------------------
(* upload, download *)

\* What the kernel does to the mode of a file that is written by a process
\* without CAP_FSETID, or given to chown: set-user-ID is cleared, and
\* set-group-ID when the file is executable by its group.
KillPriv(mode) ==
    mode - (IF HasBit(mode, S_ISUID) THEN S_ISUID ELSE 0)
         - (IF HasBit(mode, S_ISGID) /\ HasBit(mode, S_IXGRP) THEN S_ISGID ELSE 0)

InputName == "in"
InputEntryPath == join_root(Root, PosixPath(InputPath))
OutputEntryPath == join_root(Root, <<"/", "out", "keep">>)

SetContent(fs, path, content) ==
    { IF e.path = path THEN [e EXCEPT !.content = content] ELSE e : e \in fs }

\* LocalUploader.upload_file(local_path, input_path) on the destination path:
\* stat, then, with the parent made writable, copyfile (an in-place write of
\* the content), chmod(orig_stat.st_mode & 0o7777) and, when restore_owner,
\* chown(orig_stat.st_uid, orig_stat.st_gid). Whether a chown by root clears
\* the set-ID bits is the kernel's choice (a.chown_kills; Linux does).
upload_file(fs, path, content, restore_owner, a) ==
    LET orig == CHOOSE e \in fs : e.path = path
        copied == [orig EXCEPT !.content = content,
                               !.mode = IF a.elevated THEN @ ELSE KillPriv(@)]
        chmodded == [copied EXCEPT !.mode = StMode(orig) % (AllPermissionBits + 1)]
        chowned == IF restore_owner
                   THEN [chmodded EXCEPT !.owner = orig.owner,
                                         !.mode = IF a.chown_kills THEN KillPriv(@) ELSE @]
                   ELSE chmodded
    IN  RestoreDir((MakeDirWritable(fs, Parent(path)) \ {orig}) \cup {chowned},
                   fs, Parent(path))

\* What the 'with make_dir_writable(remote_path.parent)' of upload_file did.
UploadScope(fs, path, after) ==
    Scope(Parent(path), fs, MakeDirWritable(fs, Parent(path)), after, "return")

\* FileUploader.run with LocalUploader's prepare_upload, extract_original_input
\* and upload_file: a.spec is "list" (no file argument), "restore" (':in') or
\* "replace" ('localfile:in'). Returns the files, the input_files mapping and
\* how it ended.
LocalUploader(w, p, a, input_files, type_) ==
    IF a.spec = "list"
    THEN [files |-> w.files, input_files |-> input_files, result |-> "ok",
          owner |-> NoPolicy, uploaded |-> "none", scope |-> NoScope]
    ELSE
    LET res == IF type_ = "chroot"
               THEN should_restore_owner(a.restore_owner, a.elevated)
               ELSE [ret |-> FALSE, warn |-> FALSE, fatal |-> FALSE]
        ro == IF type_ = "chroot"
              THEN PolicyCall(a.restore_owner, a.elevated, res)
              ELSE NoPolicy
    IN  IF ro.fatal
        THEN [files |-> w.files, input_files |-> input_files, result |-> "exit1",
              owner |-> ro, uploaded |-> "none", scope |-> NoScope]
        ELSE IF InputPath \notin p.run.input_files
        THEN [files |-> w.files, input_files |-> input_files, result |-> "exit1",
              owner |-> ro, uploaded |-> "none", scope |-> NoScope]
        ELSE IF ~Exists(w.files, InputEntryPath)
        THEN [files |-> w.files, input_files |-> input_files, result |-> "error",
              owner |-> ro, uploaded |-> "none", scope |-> NoScope]
        ELSE
        LET content == IF a.spec = "restore" THEN "orig" ELSE "local"
            after == upload_file(w.files, InputEntryPath, content, res.ret, a)
        IN  [files |-> after,
             input_files |-> IF a.spec = "restore" THEN input_files \ {InputName}
                             ELSE input_files \cup {InputName},
             result |-> "ok", owner |-> ro, uploaded |-> a.spec,
             scope |-> UploadScope(w.files, InputEntryPath, after)]

\* The dictionary with its 'mounted' entry left out.
upload_read_fresh(rec) ==
    [EmptyDict EXCEPT !.has_input_files = TRUE, !.input_files = rec.input_files]

\* upload: unpacked_info = read_dict(...) and
\* unpacked_info.setdefault('input_files', {}): the dictionary upload holds
\* until it writes it back.
upload_read(rec) == [DictOf(rec) EXCEPT !.has_input_files = TRUE]

\* upload(args), args.type = type_
upload(w, p, a, type_) ==
    target_must_exist(w,
    LET rd == read_dict(w.record, type_)
    IN  IF rd # "ok" THEN Res(w, rd, <<"read_dict">>)
        ELSE
        LET u == LocalUploader(w, p, a, w.record.input_files, type_)
            unpacked_info == [upload_read(w.record) EXCEPT !.input_files = u.input_files]
        IN  [Res([w EXCEPT !.files = u.files,
                           !.record = write_dict(unpacked_info, type_)],
                 u.result, <<"read_dict", "upload", "write_dict">>)
               EXCEPT !.owner = u.owner, !.uploaded = u.uploaded,
                      !.scope = u.scope])

\* The output files of the configuration, by name.
OutputPath(name) ==
    IF name = "keep" THEN <<"/", "out", "keep">> ELSE <<"/", "out", "result.txt">>

\* FileDownloader.run over the file specs from the i-th on, each handed to
\* LocalDownloader.download_and_print ('name:') or LocalDownloader.download
\* ('name:localfile'): a remote file that does not exist is logged as
\* critical and sys.exit(1) ends the process.
RECURSIVE FileDownloaderRun(_, _, _)
FileDownloaderRun(fs, batch, i) ==
    IF i > Len(batch) THEN [result |-> "ok", fetched |-> <<>>, critical |-> <<>>]
    ELSE IF ~Exists(fs, join_root(Root, OutputPath(batch[i].name)))
    THEN [result |-> "exit1", fetched |-> <<>>, critical |-> <<i>>]
    ELSE [FileDownloaderRun(fs, batch, i + 1) EXCEPT !.fetched = <<i>> \o @]

\* download(args), args.type = type_, with LocalDownloader; a.batch is
\* args.file, empty to list the output files.
download(w, p, a, type_) ==
    target_must_exist(w,
    LET rd == read_dict(w.record, type_)
    IN  IF rd # "ok" THEN Res(w, rd, <<"read_dict">>)
        ELSE
        LET run == FileDownloaderRun(w.files, a.batch, 1)
        IN  [Res(w, run.result,
                 <<"read_dict">> \o [i \in 1..Len(run.fetched) |-> "download"]
                    \o [i \in 1..Len(run.critical) |-> "critical"])
               EXCEPT !.batch = [given |-> a.batch, fetched |-> run.fetched,
                                 critical |-> run.critical]])

-----------------------------------------------------------------------------
(* run *)

\* What the host's '/sbin/ldconfig -v -N' may list as library directories.
LibDirChoices ==
    { <<>>, << <<"/", "lib">> >>, << <<"/", "usr", "lib">>, <<"/", "lib">> >> }

\* The command line given with --cmdline.
Override == << <<"sh">>, <<"", "usr", "bin", "prog">> >>

\* Arguments for which Path(argv[i]) raises UnicodeEncodeError.
Unencodable == { <<"", "out", "non-ascii">> }

\* Functions as dictionaries.
EmptyDictionary == [k \in {} |-> <<>>]
Restrict(f, keys) == [k \in (DOMAIN f) \cap keys |-> f[k]]
Without(f, keys) == [k \in (DOMAIN f) \ keys |-> f[k]]
Update(f, g) ==
    [k \in (DOMAIN f) \cup (DOMAIN g) |-> IF k \in DOMAIN g THEN g[k] ELSE f[k]]

RewriteArg_existing_only(fs, arg) ==
    IF arg \in Unencodable THEN arg
    ELSE
    LET p == PosixPath(arg)
    IN  IF is_absolute(p) /\ Exists(fs, join_root(Root, p))
        THEN PathStr(join_root(Root, p))
        ELSE arg

RewriteArg_always(fs, arg) ==
    LET p == PosixPath(arg)
    IN  IF is_absolute(p) THEN PathStr(join_root(Root, p)) ELSE arg

\* directory_run, "Rewrites command-line arguments that are absolute
\* filenames": one argument.
RewriteArg(fs, arg) ==
    IF arg \in Unencodable THEN arg
    ELSE
    LET p == PosixPath(arg)
    IN  IF is_absolute(p)
        THEN LET rp == join_root(Root, p)
             IN  IF Exists(fs, rp) \/ (Len(rp) > 3 /\ Exists(fs, Parent(rp)))
                 THEN PathStr(rp)
                 ELSE arg
        ELSE arg

X11Env_always(host, x11) == Restrict(host, {"DISPLAY", "XAUTHORITY"})

\* directory_run, "if args.x11": the host's DISPLAY and XAUTHORITY, those that
\* are set, when X11 is enabled.
X11Env(host, x11) ==
    IF x11 THEN Restrict(host, {"DISPLAY", "XAUTHORITY"}) ELSE EmptyDictionary

\* directory_run: the variables given to /usr/bin/env -i before PATH.
DirectoryEnviron(run, a) ==
    Without(Update(run.environ, X11Env(a.host_env, a.x11)), {"PATH"})

\* run['environ'].get('PATH', '').split(':')
PathEntries(run) ==
    IF "PATH" \in DOMAIN run.environ THEN run.environ["PATH"] ELSE << <<"">> >>

DirectoryPath_translated_only(run) ==
    LET path == [i \in 1..Len(PathEntries(run)) |-> PosixPath(PathEntries(run)[i])]
        abs == SelectSeq(path, is_absolute)
    IN  [i \in 1..Len(abs) |-> PathStr(join_root(Root, abs[i]))]

\* directory_run, "PATH": the entries of the PATH it builds.
DirectoryPath(run) ==
    LET path == [i \in 1..Len(PathEntries(run)) |-> PosixPath(PathEntries(run)[i])]
        abs == SelectSeq(path, is_absolute)
        dir_path == [i \in 1..Len(abs) |-> join_root(Root, abs[i])]
        all == dir_path \o path
    IN  [i \in 1..Len(all) |-> PathStr(all[i])]

\* X11Handler.fix_env(environ)
X11FixEnv(environ, a) == Update(environ, X11Env(a.host_env, a.x11))

\* One command of the '&&' chain handed to the shell: 'export NAME=value',
\* 'cd dir', '/usr/bin/env -i assigns argv', or 'chroot root /bin/sh -c ...'
\* ("init": one of x11.init_cmds, "chroot": 'cd dir && /usr/bin/env -i assigns
\* argv' inside the root). run is the run it belongs to, 0 for none.
Step(op, dir, assigns, argv, run) ==
    [op |-> op, dir |-> dir, assigns |-> assigns, argv |-> argv, run |-> run]

\* directory_run: the composed command of the selected run.
DirectoryCmd(fs, run, a) ==
    LET argv == IF ~a.override
                THEN [i \in 1..Len(run.argv) |-> RewriteArg(fs, run.argv[i])]
                ELSE Override
    IN  [cd |-> PathStr(join_root(Root, PosixPath(run.workingdir))),
         environ |-> DirectoryEnviron(run, a),
         path |-> DirectoryPath(run),
         argv |-> argv,
         rewritten |-> ~a.override /\ argv # run.argv,
         override |-> a.override,
         chroot |-> FALSE]

\* chroot_run: the composed command of the selected run.
ChrootCmd(run, a) ==
    [cd |-> run.workingdir,
     environ |-> X11FixEnv(run.environ, a),
     path |-> <<>>,
     argv |-> IF ~a.override THEN <<run.binary>> \o Tail(run.argv) ELSE Override,
     rewritten |-> FALSE,
     override |-> a.override,
     chroot |-> TRUE]

\* 'export LD_LIBRARY_PATH=%s' % ':'.join(... join_root(root, d) ...)
LibDirsExport(lib_dirs) ==
    Step("export", <<>>,
         [k \in {"LD_LIBRARY_PATH"} |->
            [i \in 1..Len(lib_dirs) |-> PathStr(join_root(Root, lib_dirs[i]))]],
         <<>>, 0)

\* directory_run: cmds = [lib_dirs] + one 'cd ... && /usr/bin/env -i ...' per
\* selected run, joined by ' && '.
DirectoryChain(fs, runs, selected, a) ==
    LET cmd(k) == DirectoryCmd(fs, runs[selected[k]], a)
        steps == [k \in 1..Len(selected) |->
                    << Step("cd", cmd(k).cd, EmptyDictionary, <<>>, selected[k]),
                       Step("env", <<>>,
                            Update(cmd(k).environ, [n \in {"PATH"} |-> cmd(k).path]),
                            cmd(k).argv, selected[k]) >>]
        Flat[k \in 0..Len(selected)] == IF k = 0 THEN <<>> ELSE Flat[k - 1] \o steps[k]
    IN  <<LibDirsExport(a.lib_dirs)>> \o Flat[Len(selected)]

\* x11.init_cmds, each run as 'chroot root /bin/sh -c cmd'
X11InitCmds(a) ==
    IF a.x11 THEN <<Step("init", <<>>, EmptyDictionary, <<>>, 0)>> ELSE <<>>

\* chroot_run: cmds = x11.init_cmds + one 'chroot --userspec=... root /bin/sh
\* -c ...' per selected run, joined by ' && '.
ChrootChain(runs, selected, a) ==
    LET cmd(k) == ChrootCmd(runs[selected[k]], a)
    IN  X11InitCmds(a) \o
        [k \in 1..Len(selected) |->
            Step("chroot", cmd(k).cd, cmd(k).environ, cmd(k).argv, selected[k])]

\* What the shell does with step s: its exit status. 'cd' fails when the
\* directory is not there; a program exits with the status a.exits gives its
\* run; 'export' succeeds.
StepStatus(fs, s, a) ==
    CASE s.op = "export" -> 0
      [] s.op = "cd" -> IF Exists(fs, PosixPath(s.dir)) THEN 0 ELSE 1
      [] s.op = "env" -> a.exits[s.run]
      [] s.op = "chroot" ->
            IF Exists(fs, join_root(Root, PosixPath(s.dir))) THEN a.exits[s.run] ELSE 1
      [] s.op = "init" -> a.init_exit

\* Whether step s starts the program of its run.
StartsProgram(fs, s) ==
    \/ s.op = "env"
    \/ s.op = "chroot" /\ Exists(fs, join_root(Root, PosixPath(s.dir)))

RECURSIVE ShellFrom_no_short_circuit(_, _, _, _, _)
ShellFrom_no_short_circuit(fs, chain, i, shenv, a) ==
    IF i > Len(chain) THEN <<>>
    ELSE
    LET s == chain[i]
        status == IF a.interrupt = i THEN -2 ELSE StepStatus(fs, s, a)
        seen == IF s.op \in {"env", "chroot"} THEN s.assigns ELSE shenv
        shenv2 == IF s.op = "export" THEN Update(shenv, s.assigns) ELSE shenv
    IN  <<[step |-> i, op |-> s.op, run |-> s.run, status |-> status,
           program |-> StartsProgram(fs, s), env |-> seen,
           interrupted |-> a.interrupt = i]>>
        \o ShellFrom_no_short_circuit(fs, chain, i + 1, shenv2, a)

\* sh -c 'c1 && c2 && ...' from command i on, in a shell whose environment
\* is shenv: the commands it starts, in order, each with its exit status and
\* the environment its program sees. '/usr/bin/env -i' starts the program
\* with the assignments alone; 'export' changes the shell's environment; the
\* chain stops at the first status that is not zero. The interrupt reaches
\* the shell during command a.interrupt: the shell and that command are
\* terminated by SIGINT, which the call reports as status -2.
RECURSIVE ShellFrom(_, _, _, _, _)
ShellFrom(fs, chain, i, shenv, a) ==
    IF i > Len(chain) THEN <<>>
    ELSE
    LET s == chain[i]
        status == IF a.interrupt = i THEN -2 ELSE StepStatus(fs, s, a)
        seen == IF s.op \in {"env", "chroot"} THEN s.assigns ELSE shenv
        shenv2 == IF s.op = "export" THEN Update(shenv, s.assigns) ELSE shenv
    IN  <<[step |-> i, op |-> s.op, run |-> s.run, status |-> status,
           program |-> StartsProgram(fs, s), env |-> seen,
           interrupted |-> a.interrupt = i]>>
        \o (IF status = 0 THEN ShellFrom(fs, chain, i + 1, shenv2, a) ELSE <<>>)

\* subprocess.call(cmds, shell=True): the interrupt ends the caller too,
\* with KeyboardInterrupt.
interruptible_call_plain(fs, chain, a) ==
    LET done == ShellFrom(fs, chain, 1, a.host_env, a)
    IN  [done |-> done,
         retcode |-> IF done = <<>> THEN 0 ELSE done[Len(done)].status,
         raised |-> \E i \in 1..Len(done) : done[i].interrupted]

\* interruptible_call(cmds, shell=True): the shell inherits the operator's
\* environment; the call returns the status of the last command started.
\* An interrupt is passed on to the child, and the call returns once the
\* child has ended.
interruptible_call(fs, chain, a) ==
    LET done == ShellFrom(fs, chain, 1, a.host_env, a)
    IN  [done |-> done,
         retcode |-> IF done = <<>> THEN 0 ELSE done[Len(done)].status,
         raised |-> FALSE]

\* The steps of a run from signals.pre_run on: an exception raised by the
\* call leaves the function before the status is written.
RunSteps(call) ==
    IF call.raised THEN <<"read_dict", "pre_run", "call">>
    ELSE <<"read_dict", "pre_run", "call", "status", "post_run">>

RunResult(call) == IF call.raised THEN "KeyboardInterrupt" ELSE "ok"

\* X11Handler.port_forward: the display's port, when X11 is enabled.
X11PortForward(a) == IF a.x11 THEN <<"display">> ELSE <<>>

\* chroot_run, "Starts forwarding": one LocalForwarder per forwarded port.
\* Nothing in chroot_run closes them.
Forwarders(a) ==
    [k \in 1..Len(X11PortForward(a)) |-> [port |-> X11PortForward(a)[k], open |-> TRUE]]

\* directory_run(args)
directory_run(w, p, a) ==
    target_must_exist(w,
    LET rd == read_dict(w.record, "directory")
    IN  IF rd # "ok" THEN Res(w, rd, <<"read_dict">>)
        ELSE
        LET chain == DirectoryChain(w.files, p.runs, a.selected, a)
            call == interruptible_call(w.files, chain, a)
        IN  [Res(w, RunResult(call), RunSteps(call))
                EXCEPT !.cmdline =
                           [discovered |-> a.lib_dirs,
                            lib_dirs |-> [i \in 1..Len(a.lib_dirs) |->
                                            PathStr(join_root(Root, a.lib_dirs[i]))],
                            has_lib_dirs |-> TRUE,
                            runs |-> [k \in 1..Len(a.selected) |->
                                        DirectoryCmd(w.files, p.runs[a.selected[k]], a)],
                            chain |-> chain,
                            done |-> call.done],
                       !.ran = TRUE, !.retcode = call.retcode,
                       !.reported = IF call.raised THEN 0 ELSE call.retcode,
                       !.post_run = IF call.raised THEN 0 ELSE call.retcode,
                       !.input = RunInput(a)])

\* chroot_run(args)
chroot_run(w, p, a) ==
    target_must_exist(w,
    LET rd == read_dict(w.record, "chroot")
    IN  IF rd # "ok" THEN Res(w, rd, <<"read_dict">>)
        ELSE
        LET chain == ChrootChain(p.runs, a.selected, a)
            call == interruptible_call(w.files, chain, a)
        IN  [Res(w, RunResult(call), RunSteps(call))
                EXCEPT !.cmdline = [NoCmdline EXCEPT
                                       !.runs = [k \in 1..Len(a.selected) |->
                                                   ChrootCmd(p.runs[a.selected[k]], a)],
                                       !.chain = chain,
                                       !.done = call.done],
                       !.ran = TRUE, !.retcode = call.retcode,
                       !.reported = IF call.raised THEN 0 ELSE call.retcode,
                       !.post_run = IF call.raised THEN 0 ELSE call.retcode,
                       !.input = RunInput(a), !.forwarders = Forwarders(a)])

-----------------------------------------------------------------------------
(* Two commands at once on one chroot target: each is a process of its own *)
(* that reads <target>/.reprounzip when it starts and writes it when it    *)
(* ends; nothing locks the target.                                         *)

\* A command not started: its place, the dictionary it holds, how it ended,
\* the magic directories it has bound.
Idle == [pc |-> "idle", info |-> EmptyDict, result |-> "ok", bound |-> 0]

\* No command in progress; log is the order of the steps taken.
NoInflight == [upload |-> Idle, mount |-> Idle, log |-> <<>>]

\* The first statements of a command on an existing target: target_must_exist
\* and read_dict. info is what the command keeps of the record.
StartCommand(w, info) ==
    IF ~Exists(w.files, Target) THEN [Idle EXCEPT !.pc = "done", !.result = "exit1"]
    ELSE IF read_dict(w.record, "chroot") # "ok"
    THEN [Idle EXCEPT !.pc = "done", !.result = read_dict(w.record, "chroot")]
    ELSE [Idle EXCEPT !.pc = "body", !.info = info]

-----------------------------------------------------------------------------
(* LocalDownloader.download_and_print: the file as its length, a byte as   *)
(* its offset, what was written as the chunks written, in order.           *)

\* fp.read(1024): the size of a chunk
ChunkSize == 1024

\* No download to standard output is in progress.
NoOut == [pc |-> "none", length |-> 0, pos |-> 0, chunk |-> 0, written |-> <<>>, reads |-> 0]

\* remote_path.open('rb') of a file of that many bytes
OpenFile(length) == [NoOut EXCEPT !.pc = "read", !.length = length]

\* chunk = fp.read(1024): the bytes from the position on, at most 1024 of
\* them, none at the end of the file.
ReadChunk(o) ==
    LET n == IF o.length - o.pos < ChunkSize THEN o.length - o.pos ELSE ChunkSize
    IN  [o EXCEPT !.chunk = n, !.pos = @ + n, !.reads = @ + 1, !.pc = "write"]

\* The chunk written whatever it holds.
WriteChunk_unguarded(o) ==
    [o EXCEPT !.written = Append(@, [at |-> o.pos - o.chunk, len |-> o.chunk]),
              !.pc = "test"]

\* if chunk: sys.stdout.buffer.write(chunk)
WriteChunk(o) ==
    [o EXCEPT !.written = IF o.chunk # 0
                          THEN Append(@, [at |-> o.pos - o.chunk, len |-> o.chunk])
                          ELSE @,
              !.pc = "test"]

\* while len(chunk) == 1024
TestChunk(o) == [o EXCEPT !.pc = IF o.chunk = ChunkSize THEN "read" ELSE "done"]

-----------------------------------------------------------------------------
(* The tracer's names: a name is the sequence of its '_'-separated parts,  *)
(* 'test_2' is <<"test", "2">>, 'test_' is <<"test", "">>.                    *)

\* '%d' % nb
Decimal == <<"1", "2", "3", "4", "5", "6", "7", "8", "9">>

\* '%s_%d' % (name, nb)
Suffixed(name, nb) == name \o <<Decimal[nb]>>

\* The name with a counter of its own collisions, whatever is taken.
UniqueNames_counting(names, calls, name) ==
    IF name \notin names THEN name
    ELSE Suffixed(name, 2 + Cardinality({ j \in 1..Len(calls) :
                                            calls[j].proposed = name /\ calls[j].taken }))

\* UniqueNames.__call__(name): the name when it is not taken, otherwise the
\* name with '_2', '_3', ... until one is not taken. names are the names
\* taken, calls the calls made so far.
UniqueNames(names, calls, name) ==
    IF name \notin names THEN name
    ELSE Suffixed(name, CHOOSE nb \in 2..9 :
                            /\ Suffixed(name, nb) \notin names
                            /\ \A k \in 2..(nb - 1) : Suffixed(name, k) \in names)

\* u = UniqueNames(): nothing taken, and nothing labelled.
NoTracer == [names |-> {}, calls |-> <<>>, argv |-> <<>>, listed |-> <<>>, labels |-> {},
             done |-> FALSE]

\* u(name): the name returned is taken from then on.
Call(t, name) ==
    LET attempt == UniqueNames(t.names, t.calls, name)
    IN  [t EXCEPT !.names = @ \cup {attempt},
                  !.calls = Append(@, [proposed |-> name, returned |-> attempt,
                                       taken |-> name \in t.names])]

\* run['workingdir'] of the run whose files are labelled
WorkingDir == <<"fakeworkingdir">>

\* 'arg%d' % i
ArgNames == <<"arg0", "arg1">>

\* The arguments of argv that name the file, resolved against the working
\* directory.
ArgPositions(argv, file) == { k \in 1..Len(argv) : WorkingDir \o <<argv[k]>> = file }

\* The label proposed for a file: its argument's position, or its basename.
ProposedLabel(argv, file) ==
    IF ArgPositions(argv, file) # {}
    THEN <<ArgNames[CHOOSE k \in ArgPositions(argv, file) :
                        \A j \in ArgPositions(argv, file) : k <= j]>>
    ELSE <<file[Len(file)]>>

\* The labelling with the proposed labels as they are.
RECURSIVE label_files_proposed(_, _, _, _)
label_files_proposed(argv, listed, t, labels) ==
    IF listed = <<>> THEN labels
    ELSE label_files_proposed(argv, Tail(listed), t,
             labels \cup {[label |-> ProposedLabel(argv, Head(listed)),
                           file |-> Head(listed)]})

\* label_files(runs, files, 'input'): each file of the run, in the order
\* listed, under the unique name for its proposed label. t is the name
\* generator, labels the labels given so far.
RECURSIVE label_files(_, _, _, _)
label_files(argv, listed, t, labels) ==
    IF listed = <<>> THEN labels
    ELSE LET named == Call(t, ProposedLabel(argv, Head(listed)))
         IN  label_files(argv, Tail(listed), named,
                 labels \cup {[label |-> named.calls[Len(named.calls)].returned,
                               file |-> Head(listed)]})

-----------------------------------------------------------------------------
(* The state machine: one action per command *)

\* os.environ of the operator, when all of these are set.
HostEnvironment ==
    [k \in {"DISPLAY", "XAUTHORITY", "LANG"} |->
        CASE k = "DISPLAY" -> <<":0">>
          [] k = "XAUTHORITY" -> <<"", "home", "op", ".Xauthority">>
          [] k = "LANG" -> <<"C">>]

DefaultArgs ==
    [has_pack |-> TRUE, elevated |-> TRUE, restore_owner |-> "unset",
     bind_magic_dirs |-> "unset", download_ok |-> TRUE, fail_at |-> 4,
     umount_fail |-> "none", partial |-> FALSE, spec |-> "list",
     override |-> FALSE, lib_dirs |-> <<>>, x11 |-> FALSE,
     host_env |-> Restrict(HostEnvironment, {"LANG"}), selected |-> <<1>>,
     exits |-> <<0>>, init_exit |-> 0, chown_kills |-> TRUE, batch |-> <<>>,
     interrupt |-> 0]

Types == {"directory", "chroot"}

NoLast ==
    [cmd |-> "none", type |-> "none",
     result |-> "ok", steps |-> <<>>, owner |-> NoPolicy, magic |-> NoPolicy,
     del_flag |-> FALSE, del_live |-> FALSE, unmount |-> "none",
     cmdline |-> NoCmdline, ran |-> FALSE, retcode |-> 0,
     reported |-> 0, post_run |-> 0, exit |-> 0, input |-> NoInput,
     batch |-> NoBatch, uploaded |-> "none", umounts |-> <<>>, scope |-> NoScope,
     forwarders |-> <<>>]

\* The exit status of the command's process: a function that returns lets
\* main() end with status 0; sys.exit(1), a UsageError and an exception that
\* nothing catches end it with status 1.
ProcessExit(r) == IF r.result = "ok" THEN 0 ELSE 1

Now == World(files, record, mounts)

Do(cmd, type_, r) ==
    /\ files' = r.w.files
    /\ record' = r.w.record
    /\ mounts' = r.w.mounts
    /\ last' = [cmd |-> cmd, type |-> type_,
                result |-> r.result, steps |-> r.steps, owner |-> r.owner,
                magic |-> r.magic, del_flag |-> r.del_flag, del_live |-> r.del_live,
                unmount |-> r.unmount, cmdline |-> r.cmdline, ran |-> r.ran,
                retcode |-> r.retcode, reported |-> r.reported,
                post_run |-> r.post_run, exit |-> ProcessExit(r),
                input |-> r.input, batch |-> r.batch, uploaded |-> r.uploaded,
                umounts |-> r.umounts, scope |-> r.scope, forwarders |-> r.forwarders]
    /\ UNCHANGED <<pack, tracer, out, inflight>>

\* A bind mount or an unmount by a process that is not root returns non-zero.
MountFailures(elevated) == IF elevated THEN 1..4 ELSE {1}
UmountFailures(elevated) == IF elevated THEN {"none", "dev", "proc"} ELSE {"dev"}

\* Whether the deeper mounts went before a failing unmount matters for /dev only.
PartialChoices(uf) == IF uf = "dev" THEN BOOLEAN ELSE {FALSE}

CanStack == \A i \in 1..3 : mounts[i] < MaxStack

\* The packs whose target the commands then work on.
LifecycleMembers ==
    { m \in OptionalMembers :
        m.name \in { <<"DATA", "usr", "bin", "prog">>, <<"DATA", "out", "keep">>,
                     <<"DATA", "home", "user", "in.txt">>, <<"DATA", "..", "evil">> } }

LifecyclePacks ==
    { [members |-> {ConfigMember} \cup ms, unpacked_pkg |-> FALSE, run |-> TheRun(ms),
       runs |-> <<TheRun(ms)>>] :
        ms \in {s \in SUBSET LifecycleMembers : Cardinality(s) <= MaxMembers} }

InitWorld ==
    /\ files = {}
    /\ record = NoRecord
    /\ mounts = NoMounts
    /\ last = NoLast
    /\ tracer = NoTracer
    /\ out = NoOut
    /\ inflight = NoInflight

Init ==
    /\ pack \in LifecyclePacks
    /\ InitWorld

\* Setup alone, over every pack of the model.
InitSetup ==
    /\ pack \in Packs
    /\ InitWorld

DirectoryCreate ==
    \E hp \in BOOLEAN, el \in BOOLEAN :
        LET a == [DefaultArgs EXCEPT !.has_pack = hp, !.elevated = el]
        IN  Do("setup", "directory", directory_create(Now, pack, a))

ChrootCreate ==
    \E hp \in BOOLEAN, el \in BOOLEAN, ro \in Params, dl \in BOOLEAN :
        LET a == [DefaultArgs EXCEPT !.has_pack = hp, !.elevated = el,
                                     !.restore_owner = ro, !.download_ok = dl]
        IN  Do("setup/create", "chroot", chroot_create(Now, pack, a))

ChrootSetup ==
    /\ CanStack
    /\ \E el \in BOOLEAN, ro \in Params, bm \in Params :
        \E fa \in MountFailures(el) :
            LET a == [DefaultArgs EXCEPT !.elevated = el, !.restore_owner = ro,
                                         !.bind_magic_dirs = bm, !.fail_at = fa]
            IN  Do("setup", "chroot", chroot_setup(Now, pack, a))

ChrootMount ==
    /\ CanStack
    /\ \E el \in BOOLEAN :
        \E fa \in MountFailures(el) :
            LET a == [DefaultArgs EXCEPT !.elevated = el, !.fail_at = fa]
            IN  Do("setup/mount", "chroot", chroot_mount(Now, a))

ChrootDestroyUnmount ==
    \E el \in BOOLEAN :
        \E uf \in UmountFailures(el) :
            \E pt \in PartialChoices(uf) :
                LET a == [DefaultArgs EXCEPT !.elevated = el, !.umount_fail = uf,
                                             !.partial = pt]
                IN  Do("destroy/unmount", "chroot", chroot_destroy_unmount(Now, a))

ChrootDestroyDir ==
    Do("destroy/dir", "chroot", chroot_destroy_dir(Now, DefaultArgs))

ChrootDestroy ==
    \E el \in BOOLEAN :
        \E uf \in UmountFailures(el) :
            \E pt \in PartialChoices(uf) :
                LET a == [DefaultArgs EXCEPT !.elevated = el, !.umount_fail = uf,
                                             !.partial = pt]
                IN  Do("destroy", "chroot", chroot_destroy(Now, a))

DirectoryDestroy ==
    Do("destroy", "directory", directory_destroy(Now, DefaultArgs))

\* The directory unpacker's upload takes no ownership option.
Upload ==
    \E t \in Types, sp \in {"list", "restore", "replace"} :
        \E el \in BOOLEAN, ro \in (IF t = "chroot" THEN Params ELSE {"unset"}) :
            LET a == [DefaultArgs EXCEPT !.spec = sp, !.elevated = el,
                                         !.restore_owner = ro]
            IN  Do("upload", t, upload(Now, pack, a, t))

Download ==
    \E t \in Types, sp \in {"list", "stdout", "file"} :
        LET a == [DefaultArgs EXCEPT
                    !.batch = IF sp = "list" THEN <<>>
                              ELSE <<[name |-> "keep", form |-> sp]>>]
        IN  Do("download", t, download(Now, pack, a, t))

DirectoryRun ==
    \E ov \in BOOLEAN, ld \in LibDirChoices, rc \in {0, 1} :
        LET a == [DefaultArgs EXCEPT !.override = ov, !.lib_dirs = ld,
                                     !.exits = <<rc>>]
        IN  Do("run", "directory", directory_run(Now, pack, a))

ChrootRun ==
    \E ov \in BOOLEAN, rc \in {0, 1} :
        LET a == [DefaultArgs EXCEPT !.override = ov, !.exits = <<rc>>]
        IN  Do("run", "chroot", chroot_run(Now, pack, a))

Next ==
    \/ DirectoryCreate
    \/ ChrootCreate
    \/ ChrootSetup
    \/ ChrootMount
    \/ ChrootDestroyUnmount
    \/ ChrootDestroyDir
    \/ ChrootDestroy
    \/ DirectoryDestroy
    \/ Upload
    \/ Download
    \/ DirectoryRun
    \/ ChrootRun

Spec == Init /\ [][Next]_vars

NextSetup ==
    \/ DirectoryCreate
    \/ ChrootCreate
    \/ ChrootSetup
    \/ ChrootDestroy
    \/ DirectoryDestroy

SpecSetup == InitSetup /\ [][NextSetup]_vars

\* Packs with two recorded runs, for the composed command line.
RunEnviron ==
    [k \in {"HOME", "DISPLAY", "PATH"} |->
        CASE k = "HOME" -> <<"", "home", "user">>
          [] k = "DISPLAY" -> <<":9">>
          [] k = "PATH" -> << <<"", "usr", "bin">>, <<"bin">>, <<"">>,
                              <<"", "opt", "bin">> >>]

FirstRun(ms) ==
    [TheRun(ms) EXCEPT !.argv = @ \o << <<"", "nowhere", "x">> >>,
                       !.environ = RunEnviron]

SecondRun(ms) ==
    [TheRun(ms) EXCEPT !.argv = << <<"", "usr", "bin", "prog">>, <<"in.txt">>,
                                   <<"", "out", "non-ascii">>, <<"", "">> >>,
                       !.workingdir = <<"", "out">>,
                       !.environ = Restrict(RunEnviron, {"HOME"})]

RunMembers ==
    { m \in OptionalMembers :
        m.name \in { <<"DATA", "usr", "bin", "prog">>, <<"DATA", "out", "keep">>,
                     <<"DATA", "home", "user", "in.txt">> } }

RunPacks ==
    { [members |-> {ConfigMember} \cup ms, unpacked_pkg |-> FALSE,
       run |-> FirstRun(ms), runs |-> <<FirstRun(ms), SecondRun(ms)>>] :
        ms \in {s \in SUBSET RunMembers : Cardinality(s) <= MaxMembers} }

\* What get_runs may select of the two runs.
Selections == { <<1>>, <<2>>, <<1, 2>>, <<2, 1>> }

HostEnvs ==
    { Restrict(HostEnvironment, s) :
        s \in { {}, {"LANG"}, {"DISPLAY", "LANG"}, {"XAUTHORITY"},
                {"DISPLAY", "XAUTHORITY", "LANG"} } }

\* What a program may exit with.
ExitStatuses == {0, 3}

InitRun ==
    /\ pack \in RunPacks
    /\ InitWorld

\* A run leaves files, record and mounts as they are: the runs that could
\* follow a run are those of the state before it, and are not taken again.
RunOnce == last.cmd # "run"

DirectoryRunSelected ==
    /\ RunOnce
    /\ \E ov \in BOOLEAN, ld \in LibDirChoices, x \in BOOLEAN, he \in HostEnvs,
       sel \in Selections, ex \in [1..2 -> ExitStatuses] :
        LET a == [DefaultArgs EXCEPT !.override = ov, !.lib_dirs = ld, !.x11 = x,
                                     !.host_env = he, !.selected = sel, !.exits = ex]
        IN  Do("run", "directory", directory_run(Now, pack, a))

ChrootRunSelected ==
    /\ RunOnce
    /\ \E ov \in BOOLEAN, x \in BOOLEAN, he \in HostEnvs, sel \in Selections,
       ex \in [1..2 -> ExitStatuses], ie \in {0, 1} :
        LET a == [DefaultArgs EXCEPT !.override = ov, !.x11 = x, !.host_env = he,
                                     !.selected = sel, !.exits = ex,
                                     !.init_exit = ie]
        IN  Do("run", "chroot", chroot_run(Now, pack, a))

NextRun ==
    \/ DirectoryCreate
    \/ ChrootCreate
    \/ DirectoryRunSelected
    \/ ChrootRunSelected

SpecRun == InitRun /\ [][NextRun]_vars

\* The command of the chain the operator's interrupt arrives in, 0 for no
\* interrupt.
InterruptPoints == {0, 1, 2, 3}

DirectoryRunInterrupted ==
    /\ RunOnce
    /\ \E x \in BOOLEAN, sel \in Selections, ex \in [1..2 -> ExitStatuses],
          int \in InterruptPoints :
        LET a == [DefaultArgs EXCEPT !.x11 = x, !.selected = sel, !.exits = ex,
                                     !.interrupt = int]
        IN  Do("run", "directory", directory_run(Now, pack, a))

ChrootRunInterrupted ==
    /\ RunOnce
    /\ \E x \in BOOLEAN, sel \in Selections, ex \in [1..2 -> ExitStatuses],
          int \in InterruptPoints :
        LET a == [DefaultArgs EXCEPT !.x11 = x, !.selected = sel, !.exits = ex,
                                     !.interrupt = int]
        IN  Do("run", "chroot", chroot_run(Now, pack, a))

NextInterrupt ==
    \/ DirectoryCreate
    \/ ChrootCreate
    \/ DirectoryRunInterrupted
    \/ ChrootRunInterrupted

SpecInterrupt == InitRun /\ [][NextInterrupt]_vars

\* Packs for the transfers: the input file with plain permissions (0o644) or
\* set-user-ID (0o4755), its directory read-only (0o555), an output file.
InputModes == {DefaultMode, 2541}

TransferMembers ==
    { [name |-> <<"DATA">> \o Tail(InputPath), type |-> "file", linkname |-> <<>>,
       mode |-> md] : md \in InputModes }
    \cup { [name |-> <<"DATA", "home", "user">>, type |-> "dir", linkname |-> <<>>,
            mode |-> 365],
           [name |-> <<"DATA", "out", "keep">>, type |-> "file", linkname |-> <<>>,
            mode |-> DefaultMode] }

TransferPacks ==
    { [members |-> {ConfigMember} \cup ms, unpacked_pkg |-> FALSE,
       run |-> TheRun(ms), runs |-> <<TheRun(ms)>>] :
        ms \in { s \in SUBSET TransferMembers :
                    /\ Cardinality(s) <= MaxMembers + 1
                    /\ \A m1, m2 \in s : m1.name = m2.name => m1 = m2 } }

\* The file specs of a download: 'name:' and 'name:localfile', of an output
\* that setup may have written and of one that no setup writes.
FileSpecs == [name : {"keep", "result"}, form : {"stdout", "file"}]

Batches == {<<>>} \cup {<<x>> : x \in FileSpecs} \cup {<<x, y>> : x, y \in FileSpecs}

InitTransfer ==
    /\ pack \in TransferPacks
    /\ InitWorld

UploadFile ==
    \E t \in Types, sp \in {"list", "restore", "replace"}, ck \in BOOLEAN :
        \E el \in BOOLEAN, ro \in (IF t = "chroot" THEN Params ELSE {"unset"}) :
            LET a == [DefaultArgs EXCEPT !.spec = sp, !.elevated = el,
                                         !.restore_owner = ro, !.chown_kills = ck]
            IN  Do("upload", t, upload(Now, pack, a, t))

DownloadFiles ==
    \E t \in Types, b \in Batches :
        LET a == [DefaultArgs EXCEPT !.batch = b]
        IN  Do("download", t, download(Now, pack, a, t))

NextTransfer ==
    \/ DirectoryCreate
    \/ ChrootCreate
    \/ UploadFile
    \/ DownloadFiles

SpecTransfer == InitTransfer /\ [][NextTransfer]_vars

\* tests/test_reprozip.py, test_make_dir_writable and test_make_dir_writable2:
\* the directories tmp/some/complete/path, given their permissions from the
\* deepest one up (0o755, 0o555, 0o444, 0o300), and the scope on the deepest.
TestDirs ==
    << <<"/", "tmp", "some">>, <<"/", "tmp", "some", "complete">>,
       <<"/", "tmp", "some", "complete", "path">> >>

ScopeModes == {493, 365, 292, 192}

TestTree(modes) ==
    { [Entry(TestDirs[i], "dir", <<>>, "current", "test") EXCEPT !.mode = modes[i]] :
        i \in 1..3 }

\* The test: the tree is made, 'with make_dir_writable(...)' is entered and
\* left (by an exception when raises), and the tree is removed again.
test_make_dir_writable(w, modes, raises) ==
    LET tree == TestTree(modes)
        dir == TestDirs[3]
        inside == MakeDirWritable(tree, dir)
        after == RestoreDir(inside, tree, dir)
    IN  [Res(w, IF raises THEN "error" ELSE "ok",
             <<"mkdir", "chmod", "enter", "leave", "rmtree">>)
           EXCEPT !.scope = Scope(dir, tree, inside, after,
                                  IF raises THEN "error" ELSE "return")]

\* Packs for the bootstrap: /bin as a directory member with its permissions
\* (0o755, 0o555, 0o500), a shell, an env.
BinModes == {493, 365, 320}

ScopeMembers ==
    { [name |-> <<"DATA", "bin">>, type |-> "dir", linkname |-> <<>>, mode |-> md] :
        md \in BinModes }
    \cup { m \in OptionalMembers :
             m.name \in { <<"DATA", "bin", "sh">>, <<"DATA", "usr", "bin", "env">> } }

ScopePacks ==
    { [members |-> {ConfigMember} \cup ms, unpacked_pkg |-> FALSE,
       run |-> TheRun(ms), runs |-> <<TheRun(ms)>>] :
        ms \in { s \in SUBSET ScopeMembers :
                    /\ Cardinality(s) <= MaxMembers + 1
                    /\ \A m1, m2 \in s : m1.name = m2.name => m1 = m2 } }

InitScope ==
    /\ pack \in ScopePacks
    /\ InitWorld

\* The test removes its tree: the tests that could follow it are those of
\* the state before it, and are not taken again.
TestMakeDirWritable ==
    /\ last.cmd # "test"
    /\ \E modes \in [1..3 -> ScopeModes], raises \in BOOLEAN :
        Do("test", "none", test_make_dir_writable(Now, modes, raises))

NextScope ==
    \/ ChrootCreate
    \/ TestMakeDirWritable

SpecScope == InitScope /\ [][NextScope]_vars

\* tests/test_reprozip.py, test_uniquenames: one generator asked for names.
ProposedNames == { <<"test">>, <<"test", "2">>, <<"test", "">>, <<"test", "3">> }

\* The pack plays no part in the tracer's names.
EmptyPack == CHOOSE p \in LifecyclePacks : p.members = {ConfigMember}

InitNames ==
    /\ pack = EmptyPack
    /\ InitWorld

UniqueName ==
    /\ Len(tracer.calls) < MaxCalls
    /\ \E name \in ProposedNames : tracer' = Call(tracer, name)
    /\ UNCHANGED <<pack, files, record, mounts, last, out, inflight>>

NextNames == UniqueName

SpecNames == InitNames /\ [][NextNames]_vars

\* tests/test_reprozip.py, test_label_files: the files of one run, among
\* them two of one basename and one whose basename is a position's label.
ListedFiles == { WorkingDir \o <<"aa">>, WorkingDir \o <<"bb.txt">>, <<"other", "cc.bin">>,
                 <<"else", "cc.bin">>, <<"other", "arg0">> }

Argvs == { <<"aa", "bb.txt">>, <<"bb.txt", "aa">> }

\* The files listed: each file once, in any order.
Listings ==
    UNION { { l \in [1..n -> ListedFiles] : \A i, j \in 1..n : l[i] = l[j] => i = j }
            : n \in 0..MaxListed }

InitLabels ==
    /\ pack = EmptyPack
    /\ files = {}
    /\ record = NoRecord
    /\ mounts = NoMounts
    /\ last = NoLast
    /\ out = NoOut
    /\ inflight = NoInflight
    /\ \E argv \in Argvs, listed \in Listings :
           tracer = [NoTracer EXCEPT !.argv = argv, !.listed = listed]

LabelFiles ==
    /\ ~tracer.done
    /\ tracer' = [tracer EXCEPT !.labels = label_files(tracer.argv, tracer.listed, NoTracer, {}),
                                !.done = TRUE]
    /\ UNCHANGED <<pack, files, record, mounts, last, out, inflight>>

NextLabels == LabelFiles

SpecLabels == InitLabels /\ [][NextLabels]_vars

\* download_and_print of an existing file, of any length up to MaxLength.
InitPrint ==
    /\ pack = EmptyPack
    /\ files = {}
    /\ record = NoRecord
    /\ mounts = NoMounts
    /\ last = NoLast
    /\ tracer = NoTracer
    /\ inflight = NoInflight
    /\ \E length \in 0..MaxLength : out = OpenFile(length)

FpRead ==
    /\ out.pc = "read"
    /\ out' = ReadChunk(out)
    /\ UNCHANGED <<pack, files, record, mounts, last, tracer, inflight>>

StdoutWrite ==
    /\ out.pc = "write"
    /\ out' = WriteChunk(out)
    /\ UNCHANGED <<pack, files, record, mounts, last, tracer, inflight>>

WhileTest ==
    /\ out.pc = "test"
    /\ out' = TestChunk(out)
    /\ UNCHANGED <<pack, files, record, mounts, last, tracer, inflight>>

NextPrint == FpRead \/ StdoutWrite \/ WhileTest

\* One process runs the loop: a step that can be taken is taken.
SpecPrint == InitPrint /\ [][NextPrint]_vars /\ WF_vars(NextPrint)

\* An upload and a setup/mount on the chroot target that setup/create made,
\* their steps in any order.
InitConcurrent ==
    /\ pack \in TransferPacks
    /\ InitWorld

CreateFirst ==
    /\ inflight = NoInflight
    /\ ~Exists(files, Target)
    /\ ChrootCreate

Logged(cmd, step) == Append(inflight.log, <<cmd, step>>)

\* upload: read_dict and setdefault
UploadRead ==
    /\ inflight.upload.pc = "idle"
    /\ inflight' = [inflight EXCEPT !.upload = StartCommand(Now, upload_read(record)),
                                    !.log = Logged("upload", "read")]
    /\ UNCHANGED <<pack, files, record, mounts, last, tracer, out>>

\* upload: LocalUploader(target, input_files, files, ...)
UploadCopy ==
    /\ inflight.upload.pc = "body"
    /\ \E sp \in {"list", "replace"} :
        LET a == [DefaultArgs EXCEPT !.spec = sp]
            u == LocalUploader(Now, pack, a, inflight.upload.info.input_files, "chroot")
        IN  /\ files' = u.files
            /\ inflight' = [inflight EXCEPT !.upload.pc = "write",
                                            !.upload.info.input_files = u.input_files,
                                            !.upload.result = u.result,
                                            !.log = Logged("upload", "copy")]
    /\ UNCHANGED <<pack, record, mounts, last, tracer, out>>

\* upload: finally: write_dict(target / '.reprounzip', unpacked_info, args.type)
UploadWrite ==
    /\ inflight.upload.pc = "write"
    /\ record' = write_dict(inflight.upload.info, "chroot")
    /\ inflight' = [inflight EXCEPT !.upload.pc = "done",
                                    !.log = Logged("upload", "write")]
    /\ UNCHANGED <<pack, files, mounts, last, tracer, out>>

\* chroot_mount: read_dict
MountRead ==
    /\ inflight.mount.pc = "idle"
    /\ inflight' = [inflight EXCEPT !.mount = StartCommand(Now, MountedDict),
                                    !.log = Logged("mount", "read")]
    /\ UNCHANGED <<pack, files, record, mounts, last, tracer, out>>

\* chroot_mount: d.mkdir(parents=True) and 'mount -o bind m d' of the next
\* magic directory; a mount that fails ends the command.
MountBind ==
    /\ inflight.mount.pc = "body"
    /\ \E bind_ok \in BOOLEAN :
        LET i == inflight.mount.bound + 1
        IN  /\ files' = files \cup {MagicDirEntry(i)}
            /\ mounts' = IF bind_ok THEN [mounts EXCEPT ![i] = @ + 1] ELSE mounts
            /\ inflight' = [inflight EXCEPT
                               !.mount.bound = IF bind_ok THEN i ELSE @,
                               !.mount.pc = IF ~bind_ok THEN "done"
                                            ELSE IF i = 3 THEN "write" ELSE "body",
                               !.mount.result = IF bind_ok THEN "ok" ELSE "error",
                               !.log = Logged("mount", "bind")]
    /\ UNCHANGED <<pack, record, last, tracer, out>>

\* chroot_mount: write_dict(target / '.reprounzip', {'mounted': True}, 'chroot')
MountWrite ==
    /\ inflight.mount.pc = "write"
    /\ record' = write_dict(inflight.mount.info, "chroot")
    /\ inflight' = [inflight EXCEPT !.mount.pc = "done",
                                    !.log = Logged("mount", "write")]
    /\ UNCHANGED <<pack, files, mounts, last, tracer, out>>

NextConcurrent ==
    \/ CreateFirst
    \/ UploadRead
    \/ UploadCopy
    \/ UploadWrite
    \/ MountRead
    \/ MountBind
    \/ MountWrite

SpecConcurrent == InitConcurrent /\ [][NextConcurrent]_vars

-----------------------------------------------------------------------------
(* Properties *)

Setups == {"setup", "setup/create"}

InSteps(x) == \E i \in 1..Len(last.steps) : last.steps[i] = x

\* Step x of the last command came before its step y.
StepBefore(x, y) ==
    \E i, j \in 1..Len(last.steps) :
        i < j /\ last.steps[i] = x /\ last.steps[j] = y

\* The last command was a setup given a pack and a target that was not there.
SetupEntered == last.cmd \in Setups /\ last.steps # <<"usage">>

\* A name with a parent-directory segment or a leading '/'.
UnsafeName(n) == (\E i \in 1..Len(n) : n[i] = "..") \/ StartsWithSlash(n)

UnsafePack == \E m \in pack.members : UnsafeName(m.name)

\* The data members extraction wrote.
DataWritten ==
    { e \in files : /\ e.content \in {"orig", "local"}
                    /\ e.path \notin {ConfigEntry.path, RootEntry.path,
                                      InputsTarEntry.path} }

\* C1: a setup (directory or chroot) of a pack holding a member with a
\* parent-directory segment or a leading '/' exits non-zero and leaves the
\* target absent or empty.
C1_UnsafePackLeavesNoTarget ==
    (SetupEntered /\ UnsafePack) =>
        (last.result = "exit1" /\ ~Exists(files, Target))

\* C2: no chroot destroy or destroy/dir deletes the target while a host
\* pseudo-filesystem is still bind-mounted beneath it.
C2_NoDeleteOverLiveMount ==
    ~(last.type = "chroot" /\ last.cmd \in {"destroy", "destroy/dir"} /\ last.del_live)

\* C3: the recursive delete never starts while the persisted mounted flag is
\* true: chroot destroy has unmounted and written mounted = false before it
\* deletes, and destroy/dir on a mounted target exits non-zero and deletes nothing.
C3_NoDeleteWhileMountedFlag ==
    /\ [](/\ ~last.del_flag
          /\ (last.cmd = "destroy" /\ last.type = "chroot" /\ last.unmount = "True"
                /\ InSteps("rmtree"))
              => (StepBefore("umount", "write_dict") /\ StepBefore("write_dict", "rmtree")))
    /\ [][ (last'.cmd = "destroy/dir" /\ record.present /\ record.unpacker = "chroot"
              /\ GetMounted(record) /\ Exists(files, Target))
           => (last'.result = "exit1" /\ UNCHANGED <<files, record, mounts>>) ]_vars

C3_DestroyUnmountedFirst ==
    /\ last.cmd = "destroy" /\ last.type = "chroot" /\ last.result = "ok"
    /\ last.unmount = "True" /\ InSteps("rmtree")
    /\ ~Exists(files, Target)

ExistingTargetCmds ==
    {"run", "upload", "download", "setup/mount", "destroy/unmount", "destroy/dir",
     "destroy"}

\* C4: a command on an existing target whose persisted unpacker is not the
\* command's own fails with a Usage error, and the files, the record and the
\* mounts are what they were; nothing is run.
C4_WrongUnpackerChangesNothing ==
    [][ (last'.cmd \in ExistingTargetCmds /\ Exists(files, Target)
           /\ record.present /\ record.unpacker # last'.type)
        => (last'.result = "UsageError" /\ ~last'.ran
              /\ UNCHANGED <<files, record, mounts>>) ]_vars

C4_ChrootCommandOnDirectoryTarget ==
    /\ last.cmd \in ExistingTargetCmds /\ last.type = "chroot"
    /\ last.result = "UsageError"
    /\ record.present /\ record.unpacker = "directory"

\* C5 as claimed: unmount on a target that is not mounted is no error.
C5_UnmountOfUnmountedIsNoError ==
    (last.cmd = "destroy/unmount" /\ last.unmount = "False") => last.result = "ok"

\* C5 amended: chroot_unmount on a target whose mounted flag is false or absent
\* runs no unmount command, leaves files, record and mounts as they were and
\* returns False; chroot destroy goes on to delete, the destroy/unmount command
\* exits non-zero. A second destroy/unmount after a successful one changes
\* nothing and exits non-zero.
C5_UnmountOfUnmountedChangesNothing ==
    /\ [](last.unmount = "False" =>
            /\ ~InSteps("umount")
            /\ last.cmd = "destroy/unmount" => last.result = "exit1"
            /\ last.cmd = "destroy" => InSteps("rmtree"))
    /\ [][ (last'.cmd = "destroy/unmount" /\ Exists(files, Target)
              /\ record.present /\ record.unpacker = "chroot" /\ ~GetMounted(record))
           => (last'.unmount = "False" /\ last'.result = "exit1"
                 /\ UNCHANGED <<files, record, mounts>>) ]_vars
    /\ [][ (last.cmd = "destroy/unmount" /\ last.result = "ok"
              /\ last'.cmd = "destroy/unmount")
           => (last'.result = "exit1" /\ UNCHANGED <<files, record, mounts>>) ]_vars

C5_SecondUnmount ==
    /\ last.cmd = "destroy/unmount" /\ last.unmount = "False"
    /\ last.result = "exit1"
    /\ record.mounted = "false"

\* The resolution the specification gives for a request and a privilege.
PolicyTable(param, elevated) ==
    CASE ~elevated /\ param = "yes" -> [ret |-> FALSE, warn |-> FALSE, fatal |-> TRUE]
      [] ~elevated /\ param = "unset" -> [ret |-> FALSE, warn |-> TRUE, fatal |-> FALSE]
      [] ~elevated /\ param = "no" -> [ret |-> FALSE, warn |-> FALSE, fatal |-> FALSE]
      [] elevated /\ param = "unset" -> [ret |-> TRUE, warn |-> FALSE, fatal |-> FALSE]
      [] elevated /\ param = "yes" -> [ret |-> TRUE, warn |-> FALSE, fatal |-> FALSE]
      [] elevated /\ param = "no" -> [ret |-> FALSE, warn |-> FALSE, fatal |-> FALSE]

Resolved(c) ==
    c.called =>
        /\ [ret |-> c.ret, warn |-> c.warn, fatal |-> c.fatal]
             = PolicyTable(c.param, c.elevated)
        /\ c.fatal => (~c.ret /\ last.result = "exit1")

\* C6: both switches resolve as the table says, an explicit yes without
\* privilege is fatal, and the two resolvers agree on every input.
C6_PrivilegePolicy ==
    /\ Resolved(last.owner)
    /\ Resolved(last.magic)
    /\ \A param \in Params, elevated \in BOOLEAN :
         should_restore_owner(param, elevated)
           = should_mount_magic_dirs(param, elevated)

C6_ExplicitYesWithoutPrivilege ==
    /\ last.owner.called /\ ~last.owner.elevated /\ last.owner.param = "yes"
    /\ last.owner.fatal /\ last.result = "exit1"

\* C7: setup checks the names of all members, those outside DATA/ too, before
\* it extracts the first data member: with an unsafe member anywhere in the
\* pack no data member is ever written.
C7_NameCheckBeforeExtraction ==
    /\ UnsafePack => DataWritten = {}
    /\ (last.cmd \in Setups /\ InSteps("extract_data"))
         => StepBefore("name_check", "extract_data")
    /\ (SetupEntered /\ UnsafePack /\ InSteps("name_check"))
         => (last.result = "exit1" /\ ~InSteps("extract_data"))

C7_UnsafeMemberOutsideData ==
    /\ SetupEntered /\ last.result = "exit1" /\ InSteps("name_check")
    /\ \E m \in pack.members : UnsafeName(m.name) /\ ~IsData(m)
    /\ \E m \in pack.members : ~UnsafeName(m.name) /\ IsData(m)
    /\ DataWritten = {}

\* The link target translate gives for a member's absolute link target.
TranslatedLink(m) == PathStr(join_root(Root, PosixPath(m.linkname)))

AbsoluteSymlinks ==
    { m \in DataMembers(pack.members) :
        m.type = "sym" /\ is_absolute(PosixPath(m.linkname)) }

WrittenAs(m, linkname) ==
    \E e \in files : /\ e.path = OsPathJoin(Root, StripData(m.name))
                     /\ e.type = "sym" /\ e.linkname = linkname

ExtractedBy(type_) ==
    last.cmd \in Setups /\ last.type = type_ /\ InSteps("extract_data")

\* C8 as claimed: directory and chroot setup both write an absolute link
\* target as translate(root, target).
C8_SetupTranslatesSymlinks ==
    (last.cmd \in Setups /\ InSteps("extract_data")) =>
        \A m \in AbsoluteSymlinks : WrittenAs(m, TranslatedLink(m))

\* C8 amended: directory setup writes an absolute link target as
\* translate(root, target); chroot setup writes every link target unchanged.
C8_DirectorySetupTranslatesSymlinks ==
    /\ ExtractedBy("directory") =>
         \A m \in AbsoluteSymlinks :
            /\ WrittenAs(m, TranslatedLink(m))
            /\ IsPrefix(PathStr(Root), TranslatedLink(m))
    /\ ExtractedBy("chroot") =>
         \A m \in AbsoluteSymlinks : WrittenAs(m, m.linkname)

C8_DirectorySymlinkWritten ==
    /\ ExtractedBy("directory") /\ last.result = "ok"
    /\ \E m \in AbsoluteSymlinks : WrittenAs(m, TranslatedLink(m))

\* The absolute paths translate is tried on.
AbsPaths ==
    { <<"/">>, <<"/", "usr", "bin", "prog">>, <<"/", "..", "etc">>,
      <<"/", "a", "..", "..", "b">> }

\* C9: translate(root, p) has root as a prefix for every absolute p, and the
\* extraction targets and the symlink targets setup writes follow the same rule.
C9_TranslatedPathsUnderRoot ==
    /\ \A p \in AbsPaths : IsPrefix(Root, join_root(Root, p))
    /\ \A e \in DataWritten : IsPrefix(Root, e.path)
    /\ ExtractedBy("directory") =>
         \A m \in AbsoluteSymlinks : WrittenAs(m, TranslatedLink(m))

ScenarioRun(type_) ==
    /\ last.cmd = "run" /\ last.type = type_ /\ last.ran
    /\ Len(last.cmdline.runs) = 1
    /\ ~last.cmdline.runs[1].override

Translated(s) == PathStr(join_root(Root, PosixPath(s)))

\* What the scenario asks of the composed command.
ScenarioTranslated(c, run) ==
    /\ c.runs[1].cd = Translated(run.workingdir)
    /\ c.has_lib_dirs
    /\ c.lib_dirs = [i \in 1..Len(c.discovered) |->
                        PathStr(join_root(Root, c.discovered[i]))]
    /\ Exists(files, join_root(Root, PosixPath(run.argv[1])))
         => c.runs[1].argv[1] = Translated(run.argv[1])
    /\ c.runs[1].argv[2] = run.argv[2]
    /\ c.runs[1].argv[3] =
         IF Exists(files, Parent(join_root(Root, PosixPath(run.argv[3]))))
         THEN Translated(run.argv[3]) ELSE run.argv[3]

\* C10 as claimed: the command a chroot run composes for the scenario.
C10_ChrootRunTranslates ==
    ScenarioRun("chroot") => ScenarioTranslated(last.cmdline, pack.run)

\* C10 amended: a directory run composes the translated command; a chroot run
\* changes to the untranslated working directory, sets no library path and
\* rewrites no argument.
C10_DirectoryRunTranslates ==
    /\ ScenarioRun("directory") => ScenarioTranslated(last.cmdline, pack.run)
    /\ ScenarioRun("chroot") =>
         /\ last.cmdline.runs[1].cd = pack.run.workingdir
         /\ ~last.cmdline.has_lib_dirs
         /\ last.cmdline.runs[1].argv = <<pack.run.binary>> \o Tail(pack.run.argv)

C10_ScenarioDirectoryRun ==
    /\ ScenarioRun("directory")
    /\ Exists(files, join_root(Root, PosixPath(pack.run.argv[1])))
    /\ ~Exists(files, Parent(join_root(Root, PosixPath(pack.run.argv[3]))))
    /\ last.cmdline.runs[1].argv[1] = Translated(pack.run.argv[1])
    /\ last.cmdline.runs[1].argv[3] = pack.run.argv[3]
    /\ last.cmdline.lib_dirs # <<>>

\* The last command was a run of the given kind that composed its command.
Ran(type_) == last.cmd = "run" /\ last.type = type_ /\ last.result = "ok"

\* The recorded run that was selected k-th, and the command composed for it.
SelectedRun(k) == pack.runs[last.input.selected[k]]
ComposedCmd(k) == last.cmdline.runs[k]

\* The translated candidate of an argument.
Candidate(arg) == join_root(Root, PosixPath(arg))

\* The condition under which an argument is to be replaced.
MustReplace(arg) ==
    /\ arg \notin Unencodable
    /\ StartsWithSlash(arg)
    /\ \/ Exists(files, Candidate(arg))
       \/ /\ ~Exists(files, Candidate(arg))
          /\ Len(Candidate(arg)) > 3
          /\ Exists(files, Parent(Candidate(arg)))

\* C11: a directory run without an override replaces an argument by its
\* translated candidate exactly when the argument parses as an absolute path
\* and the candidate exists, or does not exist but has more than three
\* components and an existing parent; every other argument is unchanged; the
\* rewritten flag is true exactly when an argument was replaced; with an
\* override no argument is rewritten.
C11_ArgumentRewriting ==
    Ran("directory") =>
        \A k \in 1..Len(last.input.selected) :
            LET run == SelectedRun(k)
                cmd == ComposedCmd(k)
            IN  IF cmd.override
                THEN cmd.argv = Override /\ ~cmd.rewritten
                ELSE /\ Len(cmd.argv) = Len(run.argv)
                     /\ \A i \in 1..Len(run.argv) :
                            cmd.argv[i] = IF MustReplace(run.argv[i])
                                          THEN PathStr(Candidate(run.argv[i]))
                                          ELSE run.argv[i]
                     /\ cmd.rewritten <=>
                            \E i \in 1..Len(run.argv) : cmd.argv[i] # run.argv[i]

\* Both runs selected on a tree holding the program and /out: an existing
\* candidate, a missing candidate with an existing parent, a missing candidate
\* without one, and an argument that does not parse.
C11_EveryRewriteCase ==
    /\ Ran("directory") /\ last.input.selected = <<1, 2>>
    /\ ~ComposedCmd(1).override /\ ComposedCmd(1).rewritten
    /\ Exists(files, Candidate(SelectedRun(1).argv[1]))
    /\ ComposedCmd(1).argv[1] = PathStr(Candidate(SelectedRun(1).argv[1]))
    /\ ~Exists(files, Candidate(SelectedRun(1).argv[3]))
    /\ ComposedCmd(1).argv[3] = PathStr(Candidate(SelectedRun(1).argv[3]))
    /\ ComposedCmd(1).argv[4] = SelectedRun(1).argv[4]
    /\ SelectedRun(2).argv[3] \in Unencodable
    /\ Exists(files, Parent(Candidate(SelectedRun(2).argv[3])))
    /\ ComposedCmd(2).argv[3] = SelectedRun(2).argv[3]

\* The commands the shell started for the last run, in order.
Done == last.cmdline.done

\* The library-path variable a program sees: its entries, none when unset.
LibraryPathSeen(env) ==
    IF "LD_LIBRARY_PATH" \in DOMAIN env THEN env["LD_LIBRARY_PATH"] ELSE <<>>

\* C12: the program started by a directory run sees the library-path variable
\* equal to the translated discovered directories, the computed PATH, and
\* nothing inherited from the operator's environment.
C12_ProgramSeesLibraryPath ==
    Ran("directory") =>
        \A j \in 1..Len(Done) :
            Done[j].program =>
                LET env == Done[j].env
                    run == pack.runs[Done[j].run]
                IN  /\ LibraryPathSeen(env) = last.cmdline.lib_dirs
                    /\ "PATH" \in DOMAIN env /\ env["PATH"] = DirectoryPath(run)
                    /\ \A k \in (DOMAIN env) \cap (DOMAIN last.input.host_env) :
                          \/ k \in DOMAIN run.environ
                          \/ last.input.x11 /\ k \in {"DISPLAY", "XAUTHORITY"}

\* An entry as rpaths prints it: '' and '.' both name the current directory.
Printed(entry) == PathStr(PosixPath(entry))

\* C13: the PATH built for a directory run is list A followed by list B, B
\* being every entry of the recorded PATH in its order, untranslated, and A
\* the translation of exactly the absolute entries of B, in the same order;
\* no entry is dropped, and relative and empty entries are in B only.
C13_PathTranslatedThenOriginal ==
    Ran("directory") =>
        \A k \in 1..Len(last.input.selected) :
            LET B == PathEntries(SelectedRun(k))
                absolute == SelectSeq(B, StartsWithSlash)
                value == ComposedCmd(k).path
            IN  /\ Len(value) = Len(absolute) + Len(B)
                /\ \A j \in 1..Len(absolute) :
                       value[j] = PathStr(join_root(Root, PosixPath(absolute[j])))
                /\ \A i \in 1..Len(B) :
                       value[Len(absolute) + i] = Printed(B[i])

\* The first run, whose PATH is '/usr/bin:bin::/opt/bin', was composed.
C13_MixedPathComposed ==
    /\ Ran("directory") /\ last.input.selected[1] = 1
    /\ Len(ComposedCmd(1).path) = 6
    /\ ComposedCmd(1).path[2] = <<"", "t", "root", "opt", "bin">>
    /\ ComposedCmd(1).path[4] = <<"bin">>
    /\ ComposedCmd(1).path[5] = <<".">>
    /\ \E j \in 1..Len(Done) : Done[j].program /\ Done[j].run = 1

\* The commands of the composed chain that start a program of a run.
ProgramSteps ==
    { j \in 1..Len(last.cmdline.chain) : last.cmdline.chain[j].op \in {"env", "chroot"} }

\* The recorded mapping without PATH, plus the host's DISPLAY and XAUTHORITY,
\* those that are set, when graphical passthrough is requested.
ExpectedEnviron(run) ==
    LET recorded == [k \in (DOMAIN run.environ) \ {"PATH"} |-> run.environ[k]]
        host == last.input.host_env
        passed == IF last.input.x11
                  THEN (DOMAIN host) \cap {"DISPLAY", "XAUTHORITY"} ELSE {}
    IN  [k \in (DOMAIN recorded) \cup passed |->
            IF k \in passed THEN host[k] ELSE recorded[k]]

RunsStarted ==
    LET started == SelectSeq(Done, LAMBDA d : d.program)
    IN  [i \in 1..Len(started) |-> started[i].run]

\* C15: the selected runs are executed in selection order within one shell
\* invocation, chained with short-circuit sequencing: a command of the chain
\* starts only if every earlier command (runs and initialisation commands)
\* exited with status zero, and after the first non-zero exit no later run
\* starts.
C15_ShortCircuitChain ==
    (Ran("directory") \/ Ran("chroot")) =>
        /\ Len(Done) <= Len(last.cmdline.chain)
        /\ \A j \in 1..Len(Done) :
              /\ Done[j].step = j
              /\ \A i \in 1..(j - 1) : Done[i].status = 0
        /\ Len(Done) < Len(last.cmdline.chain) => Done[Len(Done)].status # 0
        /\ Len(RunsStarted) <= Len(last.input.selected)
        /\ \A i \in 1..Len(RunsStarted) : RunsStarted[i] = last.input.selected[i]
        /\ \A i \in 1..Len(RunsStarted) :
              \A h \in 1..(i - 1) : last.input.exits[RunsStarted[h]] = 0
        /\ (last.type = "chroot" /\ last.input.x11 /\ last.input.init_exit # 0)
              => RunsStarted = <<>>

\* Both runs selected, the program of the first exits with 3: the second run
\* is not started.
C15_SecondRunNotStarted ==
    /\ Ran("directory") /\ last.input.selected = <<1, 2>>
    /\ last.input.exits[1] = 3
    /\ RunsStarted = <<1>>
    /\ last.retcode = 3

\* C16: for the run command, directory and chroot, the exit status of the
\* command process equals the exit status of the executed experiment, and the
\* status reported to the operator and passed to the post-run hook is the
\* child's raw exit status.
C16_ExitStatusIsTheExperiments ==
    (Ran("directory") \/ Ran("chroot")) =>
        /\ last.exit = last.retcode
        /\ last.reported = last.retcode
        /\ last.post_run = last.retcode

\* The input file under the root, and the member it was extracted from.
InputEntry(fs) == CHOOSE e \in fs : e.path = InputEntryPath
InputMember == CHOOSE m \in pack.members : m.name = <<"DATA">> \o Tail(InputPath)

\* The last command was an upload that overwrote the input file.
Uploaded(forms) ==
    last.cmd = "upload" /\ last.result = "ok" /\ last.uploaded \in forms

\* C17: after setup has archived the input file and after any sequence of
\* uploads, uploading the bare role restores the target's copy to the content
\* extracted at setup and to the permission bits it had at extraction.
C17_RestoreRoundTrip ==
    Uploaded({"restore"}) =>
        /\ InputEntry(files).content = "orig"
        /\ InputEntry(files).mode = InputMember.mode

\* C18: an upload that overwrites the destination leaves its low 12 mode bits
\* as they were read before the overwrite, its owner as it was when ownership
\* restoration is in effect, and the permissions of its parent directory as
\* they were.
C18_UploadKeepsModeOwnerAndParent ==
    [][ (last'.cmd = "upload" /\ last'.result = "ok"
            /\ last'.uploaded \in {"restore", "replace"})
        => /\ InputEntry(files').mode % (AllPermissionBits + 1)
                = StMode(InputEntry(files)) % (AllPermissionBits + 1)
           /\ last'.owner.ret => InputEntry(files').owner = InputEntry(files).owner
           /\ \A d \in files :
                 (d.type = "dir" /\ d.path = Parent(InputEntryPath)) => d \in files'
      ]_vars

\* The file specs of the last download whose remote file exists.
Present == { i \in 1..Len(last.batch.given) :
               Exists(files, join_root(Root, OutputPath(last.batch.given[i].name))) }

\* C19: in a download given several file specs, a spec whose remote file is
\* missing is reported as a fatal error, once, and the other specs of the
\* batch are still processed.
C19_MissingFileDoesNotAbortBatch ==
    (last.cmd = "download" /\ last.result \in {"ok", "exit1"}
        /\ last.steps # <<"target_must_exist">>) =>
        /\ \A i \in 1..Len(last.batch.given) :
              i \notin Present =>
                 /\ last.result = "exit1"
                 /\ Cardinality({j \in 1..Len(last.batch.critical) :
                                   last.batch.critical[j] = i}) = 1
        /\ \A i \in Present : \E j \in 1..Len(last.batch.fetched) : last.batch.fetched[j] = i

\* Mount point q lies beneath mount point p.
Beneath(q, p) == IsPrefix(MagicDirs[p], MagicDirs[q]) /\ p # q

\* How often mount point i is among the arguments the umount commands of the
\* last unmount were given.
TimesGiven(umounts, i) ==
    Cardinality({ pos \in UNION { { <<n, x>> : x \in 1..Len(umounts[n]) } :
                                    n \in 1..Len(umounts) } :
                    umounts[pos[1]][pos[2]] = i })

UnmountCmds == {"destroy/unmount", "destroy"}

\* C20: an unmount of a target whose mounted flag is true hands every mount
\* at or beneath the magic mount points to umount, no mount ahead of one that
\* is nested beneath it; the flag is written false only after every umount
\* command succeeded; when one returns non-zero the command fails, nothing is
\* tried again and the flag stays true.
C20_UnmountDeepestFirst ==
    /\ [](last.cmd \in UnmountCmds =>
            \A n \in 1..Len(last.umounts) :
                \A x, y \in 1..Len(last.umounts[n]) :
                    x < y => ~Beneath(last.umounts[n][y], last.umounts[n][x]))
    /\ [][ (last'.cmd \in UnmountCmds /\ last'.type = "chroot" /\ GetMounted(record)
              /\ last'.unmount \in {"True", "raised"})
           => /\ last'.unmount = "True" =>
                    /\ \A i \in 1..3 : TimesGiven(last'.umounts, i) = mounts[i]
                    /\ mounts' = NoMounts
                    /\ last'.cmd = "destroy/unmount" =>
                          (record'.mounted = "false" /\ last'.result = "ok")
              /\ last'.unmount = "raised" =>
                    /\ last'.result = "error"
                    /\ record' = record
                    /\ Len(last'.umounts) <= 2
                    /\ \A i \in 1..3 : TimesGiven(last'.umounts, i) <= mounts[i]
         ]_vars
    /\ [][ (GetMounted(record) /\ ~GetMounted(record') /\ record'.present)
           => (last'.cmd \in UnmountCmds /\ last'.unmount = "True") ]_vars

\* destroy/unmount on a mounted target: /dev/pts went to umount ahead of
\* /dev, then /proc, and the flag was written false.
C20_PtsBeforeDev ==
    /\ last.cmd = "destroy/unmount" /\ last.unmount = "True"
    /\ last.umounts = << <<2, 1>>, <<3>> >>
    /\ record.mounted = "false" /\ mounts = NoMounts

\* The owner's permission bits of a mode, 0..7.
OwnerBits(mode) == (mode % 512) \div 64

\* A directory that bars nobody: the scope's directory with the owner's read,
\* write and search bits, a directory above it with the owner's search bit.
Accessible(d, dir) ==
    IF d.path = dir THEN OwnerBits(d.mode) = 7 ELSE OwnerBits(d.mode) % 2 = 1

\* C21: inside a 'make directory writable' scope the directory and every
\* directory above it that had to be changed have the owner's read, write and
\* search bits, and the directory can be reached; the directories that were
\* accessible already keep their permissions; when the scope is left, by a
\* return or by an error, every directory has the permissions it had before.
\* So it is for the bootstrap install into <root>/bin and for an upload.
C21_ScopedWritable ==
    last.scope.entered =>
        LET s == last.scope
        IN  /\ \A d \in s.inside :
                  /\ d.path = s.dir => OwnerBits(d.mode) = 7
                  /\ d \notin s.before => OwnerBits(d.mode) = 7
                  /\ Accessible(d, s.dir)
            /\ \A b \in s.before : Accessible(b, s.dir) => b \in s.inside
            /\ {d.path : d \in s.inside} = {b.path : b \in s.before}
            /\ s.exit \in {"return", "error"}
            /\ s.after = s.before
            /\ last.cmd \in {"setup", "setup/create", "upload"} =>
                  \A b \in s.before :
                      \E e \in files : e.type = "dir" /\ e.path = b.path /\ e.mode = b.mode

\* A chroot setup/create by a user who is not root, of a pack whose /bin is
\* read-only (0o555) and holds no shell: /bin was writable while the download
\* failed, and is read-only again.
C21_BinRestoredAfterFailedInstall ==
    /\ last.cmd = "setup/create" /\ last.result = "error"
    /\ last.scope.entered /\ last.scope.exit = "error" /\ last.scope.dir = BinPath
    /\ [path |-> BinPath, mode |-> 365] \in last.scope.before
    /\ [path |-> BinPath, mode |-> 493] \in last.scope.inside
    /\ \E e \in files : e.path = BinPath /\ e.type = "dir" /\ e.mode = 365

\* The last command was a chroot setup that extracted the data members.
ChrootExtracted == last.cmd \in Setups /\ last.type = "chroot" /\ InSteps("extract_data")

\* The root as extraction left it, and what the bootstrap added to it.
BeforeBootstrap == {e \in files : e.content # "busybox"}
Bootstrapped(p) == \E e \in files : e.path = p /\ e.content = "busybox"

\* chroot_create ran to its end (a chroot setup may fail later, in the mount).
Created == InSteps("write_dict")

\* path is there as lexists() sees it: an entry, whatever it is or points to.
Lexists(fs, p) == \E e \in fs : IsPrefix(p, e.path)

\* C22: chroot create downloads and installs busybox if and only if the shell
\* or the env path is absent from the extracted root, a symbolic link counting
\* as present whatever it points to; it makes a link for the absent ones only
\* and replaces no entry of the pack; after a successful create both paths are
\* present.
C22_BootstrapIffShellOrEnvAbsent ==
    ChrootExtracted =>
        LET sh == Lexists(BeforeBootstrap, ShPath)
            env == Lexists(BeforeBootstrap, EnvPath)
        IN  /\ InSteps("busybox") <=> (~sh \/ ~env)
            /\ ~Created => (last.result # "ok" /\ \A e \in files : e.content # "busybox")
            /\ Created =>
                  /\ Bootstrapped(BusyboxPath) <=> (~sh \/ ~env)
                  /\ Bootstrapped(ShPath) <=> ~sh
                  /\ Bootstrapped(EnvPath) <=> ~env
                  /\ \A p \in {ShPath, EnvPath} :
                        /\ Lexists(files, p)
                        /\ Cardinality({e \in files : e.path = p}) = 1
                        /\ \A e \in files :
                              (e.path = p /\ e.content = "busybox") =>
                                 (e.type = "sym" /\ e.linkname = <<"", "bin", "busybox">>)
                  /\ \A m \in DataMembers(pack.members) :
                        \E e \in files : /\ e.path = OsPathJoin(Root, StripData(m.name))
                                         /\ e.type = m.type /\ e.linkname = m.linkname
                                         /\ e.content = "orig"

\* A pack with /usr/bin/env as a link to /bin/sh and no /bin/sh: the link
\* dangles and counts as present, busybox is installed, /bin/sh is linked to
\* it and /usr/bin/env is still the pack's link.
C22_DanglingEnvKept ==
    /\ ChrootExtracted /\ Created /\ last.result = "ok"
    /\ ~Lexists(BeforeBootstrap, ShPath)
    /\ Bootstrapped(BusyboxPath) /\ Bootstrapped(ShPath) /\ ~Bootstrapped(EnvPath)
    /\ \E e \in files : /\ e.path = EnvPath /\ e.type = "sym"
                        /\ e.linkname = <<"", "bin", "sh">> /\ e.content = "orig"

\* The arguments a setup may be given.
SetupArgs ==
    { [DefaultArgs EXCEPT !.has_pack = hp, !.elevated = el, !.restore_owner = ro,
                          !.bind_magic_dirs = bm, !.download_ok = dl] :
        hp \in BOOLEAN, el \in BOOLEAN, ro \in Params, bm \in Params, dl \in BOOLEAN }

\* The command ended as a usage failure: a non-zero exit status, nothing run,
\* the world as it was.
UsageFailure(r) == ProcessExit(r) # 0 /\ ~r.ran /\ r.w = Now

\* C23: a setup without a pack argument, a setup on a target path that exists
\* and any other command on a target that does not exist exit non-zero, run
\* no experiment and leave the files, the record and the mounts as they were.
C23_UsageFailuresChangeNothing ==
    /\ [](\A a \in SetupArgs :
            (~a.has_pack \/ Exists(files, Target)) =>
                /\ UsageFailure(directory_create(Now, pack, a))
                /\ UsageFailure(chroot_create(Now, pack, a))
                /\ UsageFailure(chroot_setup(Now, pack, a)))
    /\ [][ (\/ last'.cmd \in Setups /\ Exists(files, Target)
            \/ last'.cmd \in ExistingTargetCmds /\ ~Exists(files, Target))
           => (last'.exit # 0 /\ ~last'.ran /\ UNCHANGED <<files, record, mounts>>) ]_vars

\* A directory setup on the path of a mounted chroot target: it exits with
\* status 1 and the target, its record and its mounts are still there.
C23_SetupOnExistingTarget ==
    /\ last.cmd = "setup" /\ last.type = "directory"
    /\ last.steps = <<"usage">> /\ last.exit = 1
    /\ record.present /\ record.unpacker = "chroot" /\ record.mounted = "true"
    /\ AnyLive(mounts)


\* The names taken before the i-th call of the generator.
TakenBefore(i) == { tracer.calls[j].returned : j \in 1..(i - 1) }

\* How many of the first i calls proposed a name that was already taken,
\* the name being the one the i-th call proposes.
CollisionsUpTo(i) ==
    Cardinality({ j \in 1..i : /\ tracer.calls[j].proposed = tracer.calls[i].proposed
                               /\ tracer.calls[j].proposed \in TakenBefore(j) })

ReturnedDistinct ==
    \A i, j \in 1..Len(tracer.calls) :
        tracer.calls[i].returned = tracer.calls[j].returned => i = j

UntakenUnmodified ==
    \A i \in 1..Len(tracer.calls) :
        tracer.calls[i].proposed \notin TakenBefore(i)
            => tracer.calls[i].returned = tracer.calls[i].proposed

LabelsOf(file) == { l.label : l \in { x \in tracer.labels : x.file = file } }

\* The labels given to the files listed before the i-th.
LabelsBefore(i) == UNION { LabelsOf(tracer.listed[j]) : j \in 1..(i - 1) }

\* The same files listed in another order.
Reordered(listed) ==
    { [i \in 1..Len(listed) |-> listed[p[i]]] : p \in Permutations(1..Len(listed)) }

OneLabelEach ==
    /\ { l.file : l \in tracer.labels } = { tracer.listed[i] : i \in 1..Len(tracer.listed) }
    /\ \A i \in 1..Len(tracer.listed) : Cardinality(LabelsOf(tracer.listed[i])) = 1

OrderIndependent ==
    \A other \in Reordered(tracer.listed) :
        label_files(tracer.argv, other, NoTracer, {}) = tracer.labels

ProposedDistinct ==
    \A i, j \in 1..Len(tracer.listed) :
        ProposedLabel(tracer.argv, tracer.listed[i]) = ProposedLabel(tracer.argv, tracer.listed[j])
            => i = j

RunStarted == last.cmd = "run" /\ InSteps("call")

\* C26: when a chroot run with display forwarding returns, every forwarding
\* channel it opened is closed, however the execution ended.
C26_ForwardersClosedOnReturn ==
    (RunStarted /\ last.type = "chroot" /\ last.input.x11)
        => \A k \in 1..Len(last.forwarders) : ~last.forwarders[k].open

\* The interrupt arrived while a command of the chain was executing.
Interrupted == \E i \in 1..Len(Done) : Done[i].interrupted

\* C27: the pre-run hook comes before the child is started; when the
\* operator's interrupt arrives while the command executes, the child is
\* terminated (nothing of the chain is started after it and its status is
\* that of the signal), and then the status is reported and after that the
\* post-run hook is called, both with the child's status.
C27_InterruptedRunStillReports ==
    RunStarted =>
        /\ StepBefore("pre_run", "call")
        /\ Interrupted =>
            /\ Done[Len(Done)].interrupted
            /\ Len(Done) = last.input.interrupt
            /\ last.retcode = Done[Len(Done)].status
            /\ last.retcode < 0
            /\ StepBefore("call", "status")
            /\ StepBefore("status", "post_run")
            /\ last.steps[Len(last.steps)] = "post_run"
            /\ last.reported = last.retcode
            /\ last.post_run = last.retcode

\* Two runs were selected and the operator interrupted the first program:
\* the second was not started, and the status -2 was reported and handed to
\* the post-run hook.
C27_FirstProgramInterrupted ==
    /\ RunStarted
    /\ last.type = "chroot"
    /\ Len(last.input.selected) = 2
    /\ Len(Done) = 1
    /\ Done[1].interrupted /\ Done[1].program
    /\ last.steps = <<"read_dict", "pre_run", "call", "status", "post_run">>
    /\ last.reported = -2 /\ last.post_run = -2


\* C28: a command that rewrites the record of a target keeps what it does
\* not own: the unpacker stays the one written at setup, upload leaves
\* mounted as it was, destroy/unmount and setup/mount leave the input files
\* recorded by earlier uploads as they were.
C28_RecordKeepsOtherFields ==
    [][(record.present /\ record'.present) =>
          /\ record'.unpacker = record.unpacker
          /\ last'.cmd = "upload" => record'.mounted = record.mounted
          /\ last'.cmd \in {"destroy/unmount", "setup/mount"} =>
                /\ record'.has_input_files = record.has_input_files
                /\ record'.input_files = record.input_files]_vars


\* The place of the first step x among the steps of the last command, 0 when
\* it has none.
FirstStep(x) ==
    IF InSteps(x) THEN CHOOSE i \in 1..Len(last.steps) :
                           last.steps[i] = x /\ \A j \in 1..(i - 1) : last.steps[j] # x
    ELSE 0

\* The steps of chroot_mount, which chroot setup goes on to after creating.
MountSteps == {"mount_magic_dirs", "read_dict", "mount", "write_dict"}

\* C29: setup writes the record as the last step of creating the target,
\* after the extraction of the configuration and of the data, the shell
\* bootstrap and the archive of the inputs (only the mounting of a chroot
\* setup follows); a setup that fails before that leaves no record, and
\* every later command on a target without record fails and changes nothing.
C29_RecordWrittenLast ==
    /\ [](SetupEntered =>
            /\ ~Created => ~record.present
            /\ Created =>
                /\ record.present
                /\ StepBefore("extract_config", "write_dict")
                /\ StepBefore("extract_data", "write_dict")
                /\ StepBefore("inputs_tar", "write_dict")
                /\ InSteps("busybox") => StepBefore("busybox", "write_dict")
                /\ \A i \in (FirstStep("write_dict") + 1)..Len(last.steps) :
                       /\ last.cmd = "setup" /\ last.type = "chroot"
                       /\ last.steps[i] \in MountSteps
                /\ \A x \in {"extract_config", "extract_data", "inputs_tar", "busybox"} :
                       FirstStep(x) < FirstStep("write_dict"))
    /\ [][(~record.present /\ last'.cmd \in ExistingTargetCmds) =>
              /\ last'.result \in {"exit1", "IOError"}
              /\ last'.exit = 1
              /\ UNCHANGED <<files, record, mounts>>]_vars

\* A chroot setup failed after extracting, at the download of busybox: the
\* target is there without a record, and the run that followed failed on
\* reading the record.
C29_RunAfterFailedSetup ==
    /\ ~record.present
    /\ Exists(files, Target)
    /\ Exists(files, join_root(Root, <<"/", "usr", "bin", "prog">>))
    /\ last.cmd = "run"
    /\ last.result = "IOError"


\* C30: a chroot setup that ends with the privilege error, for an explicit
\* request to restore the owners or to bind the magic directories made
\* without elevated privilege, leaves no target on disk.
C30_PrivilegeErrorLeavesNoTarget ==
    (last.cmd \in Setups /\ last.type = "chroot" /\ SetupEntered
        /\ (last.owner.fatal \/ last.magic.fatal))
        => ~Exists(files, Target)


\* The chunks written so far are the first bytes of the file, each byte
\* once and in order, and no chunk is empty or longer than the chunk size.
WrittenInOrder ==
    \A k \in 1..Len(out.written) :
        /\ out.written[k].at = IF k = 1 THEN 0
                               ELSE out.written[k - 1].at + out.written[k - 1].len
        /\ out.written[k].len \in 1..ChunkSize

\* How many bytes were written.
WrittenBytes ==
    IF out.written = <<>> THEN 0
    ELSE out.written[Len(out.written)].at + out.written[Len(out.written)].len

\* C31: the download to standard output of an existing file ends, for every
\* length of the file, having written exactly the bytes of the file, once
\* each and in order; a read asks for one chunk of 1024 bytes at most, and
\* nothing empty is written, also for the empty file and for a file of a
\* whole number of chunks.
C31_StreamsFileInChunks ==
    /\ [](/\ WrittenInOrder
          /\ out.chunk <= ChunkSize
          /\ WrittenBytes <= out.pos /\ out.pos <= out.length
          /\ out.reads <= (out.length \div ChunkSize) + 1
          /\ out.pc = "done" => WrittenBytes = out.length)
    /\ <>(out.pc = "done")

\* A file of exactly two chunks: three reads, the last of them empty, and
\* two writes.
C31_TwoWholeChunks ==
    /\ out.pc = "done"
    /\ out.length = 2 * ChunkSize
    /\ out.reads = 3
    /\ out.chunk = 0
    /\ out.written = <<[at |-> 0, len |-> ChunkSize], [at |-> ChunkSize, len |-> ChunkSize]>>


\* The place of a command's step in the order of the steps taken, 0 when it
\* was not taken.
Pos(cmd, step) ==
    IF \E i \in 1..Len(inflight.log) : inflight.log[i] = <<cmd, step>>
    THEN CHOOSE i \in 1..Len(inflight.log) : inflight.log[i] = <<cmd, step>>
    ELSE 0

\* One of the two commands ended before the other started.
OneAfterTheOther ==
    \E k \in 0..Len(inflight.log) :
        \E first \in {"upload", "mount"} :
            /\ \A i \in 1..k : inflight.log[i][1] = first
            /\ \A i \in (k + 1)..Len(inflight.log) : inflight.log[i][1] # first

\* The upload and the mount have both ended, without an error.
BothSucceeded ==
    /\ inflight.upload.pc = "done" /\ inflight.upload.result = "ok"
    /\ inflight.mount.pc = "done" /\ inflight.mount.result = "ok"

\* The magic directories are bind-mounted and the record does not say so.
MountedUnrecorded == AnyLive(mounts) /\ ~GetMounted(record)

\* C32: after an upload and a setup/mount on one chroot target that both
\* succeeded, the magic directories are mounted without the record saying so
\* exactly when the upload read the record before the mount wrote it and
\* wrote its own after that; this does not happen when one command ran after
\* the other.
C32_StaleWriteLosesMounted ==
    BothSucceeded =>
        /\ MountedUnrecorded <=>
              /\ Pos("upload", "read") < Pos("mount", "write")
              /\ Pos("mount", "write") < Pos("upload", "write")
        /\ OneAfterTheOther => ~MountedUnrecorded

\* The interleaving: upload reads and copies, the mount binds the three
\* directories and writes mounted = true, upload writes what it had read.
C32_UploadWritesStaleRecord ==
    /\ BothSucceeded
    /\ MountedUnrecorded
    /\ \A i \in 1..3 : mounts[i] = 1
    /\ record.has_input_files
    /\ inflight.log = << <<"upload", "read">>, <<"upload", "copy">>, <<"mount", "read">>,
                         <<"mount", "bind">>, <<"mount", "bind">>, <<"mount", "bind">>,
                         <<"mount", "write">>, <<"upload", "write">> >>

=============================================================================
